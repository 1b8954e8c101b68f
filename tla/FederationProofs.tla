----------------------------- MODULE FederationProofs -----------------------------
(***************************************************************************)
(* What brokers tell each other and their clients about capabilities:      *)
(* proved for every set of brokers, every configuration and registry, and  *)
(* any number of requests under way.                                       *)
(***************************************************************************)
EXTENDS Federation, BrokerRulesProofs

--------------------------------------------------------------------------------
(* What a broker finds in its own registry.                                 *)

\* One entry of what _discover_local returns.
Entry == [id : CapIds, cap : CapabilityDescriptor, score : Nat]

Origin(f, q, registry) ==
  /\ f \in Entry
  /\ f.id = f.cap.id
  /\ f.cap \in Elements(registry)
  /\ HasQuery(q) => Reaches(q.trust, f.cap.minTrust)

LEMMA FirstOfType ==
  ASSUME NEW S, NEW s \in Seq(S), NEW n \in Nat
  PROVE  /\ FirstOf(s, n) \in Seq(S)
         /\ Len(FirstOf(s, n)) = IF n < Len(s) THEN n ELSE Len(s)
         /\ \A i \in 1..Len(FirstOf(s, n)) : FirstOf(s, n)[i] = s[i]
         /\ Elements(FirstOf(s, n)) \subseteq Elements(s)
<1> DEFINE k == IF n < Len(s) THEN n ELSE Len(s)
<1>1. Len(s) \in Nat /\ DOMAIN s = 1..Len(s) /\ k \in Nat /\ k <= Len(s)
  OBVIOUS
<1>2. \A i \in 1..k : s[i] \in S
  BY <1>1
<1> HIDE DEF k
<1>3. /\ SubSeq(s, 1, k) \in Seq(S)
      /\ Len(SubSeq(s, 1, k)) = IF 1 <= k THEN k - 1 + 1 ELSE 0
      /\ \A i \in 1..(k - 1 + 1) : SubSeq(s, 1, k)[i] = s[1 + i - 1]
  BY <1>1, <1>2, SubSeqProperties
<1>4. Len(SubSeq(s, 1, k)) = k
  BY <1>1, <1>3
<1>5. \A i \in 1..k : SubSeq(s, 1, k)[i] = s[i]
  BY <1>1, <1>3
<1>6. DOMAIN SubSeq(s, 1, k) = 1..k
  BY <1>3, <1>4
<1>7. Elements(SubSeq(s, 1, k)) \subseteq Elements(s)
  BY <1>1, <1>5, <1>6 DEF Elements
<1>8. FirstOf(s, n) = SubSeq(s, 1, k)
  BY DEF FirstOf, k
<1>9. QED
  BY <1>3, <1>4, <1>5, <1>7, <1>8 DEF k

LEMMA ConcatElements ==
  ASSUME NEW S, NEW s \in Seq(S), NEW t \in Seq(S)
  PROVE  Elements(s \o t) = Elements(s) \cup Elements(t)
<1>1. /\ s \o t \in Seq(S)
      /\ Len(s \o t) = Len(s) + Len(t)
      /\ \A i \in 1..(Len(s) + Len(t)) :
           (s \o t)[i] = IF i <= Len(s) THEN s[i] ELSE t[i - Len(s)]
  BY ConcatProperties
<1>2. /\ Len(s) \in Nat /\ DOMAIN s = 1..Len(s)
      /\ Len(t) \in Nat /\ DOMAIN t = 1..Len(t)
      /\ DOMAIN (s \o t) = 1..(Len(s) + Len(t))
  BY <1>1
<1>3. ASSUME NEW i \in DOMAIN s PROVE s[i] \in Elements(s \o t)
  <2>1. i \in 1..(Len(s) + Len(t)) /\ i <= Len(s)
    BY <1>2
  <2>2. QED
    BY <1>1, <1>2, <2>1 DEF Elements
<1>4. ASSUME NEW i \in DOMAIN t PROVE t[i] \in Elements(s \o t)
  <2>1. /\ i + Len(s) \in 1..(Len(s) + Len(t)) /\ ~(i + Len(s) <= Len(s))
        /\ i + Len(s) - Len(s) = i
    BY <1>2
  <2>2. QED
    BY <1>1, <1>2, <2>1 DEF Elements
<1>5. ASSUME NEW i \in DOMAIN (s \o t) PROVE (s \o t)[i] \in Elements(s) \cup Elements(t)
  <2>1. i <= Len(s) => i \in DOMAIN s
    BY <1>2
  <2>2. ~(i <= Len(s)) => i - Len(s) \in DOMAIN t
    BY <1>2
  <2>3. QED
    BY <1>1, <1>2, <2>1, <2>2 DEF Elements
<1>6. QED
  BY <1>3, <1>4, <1>5 DEF Elements

\* find_matches for a query: registered capabilities the asking tier reaches, in the
\* total order of their scores and places.
LEMMA MatchesFound ==
  ASSUME NEW q \in DiscoveryRequest, NEW opClass \in OperationClasses,
         NEW registry \in Seq(CapabilityDescriptor)
  PROVE  LET matches == FindMatches(Lookup(q, opClass), registry)
         IN  /\ IsFiniteSet(matches)
             /\ \A c \in matches :
                  /\ c.cap \in Elements(registry) /\ c.cap \in CapabilityDescriptor
                  /\ c.score \in Nat /\ c.place \in Nat
                  /\ Reaches(q.trust, c.cap.minTrust)
             /\ \A c, d \in matches : c.place = d.place => c = d
<1> DEFINE e == Lookup(q, opClass)
           scored == Scored(e, registry)
           of(i) == [cap |-> registry[i], score |-> Score(e, registry[i]), place |-> i]
<1>1. /\ e.name \in Names /\ e.domain \in Domains /\ e.actor.trust = q.trust
  BY DiscoveryAssumption DEF Lookup, DiscoveryRequest
<1>2. ASSUME NEW cap \in CapabilityDescriptor PROVE Score(e, cap) \in Nat
  <2>1. NameScore[cap.nameMatch[e.name]] \in Nat
    BY <1>1 DEF NameScore, CapabilityDescriptor, MatchKinds
  <2>2. DomainScore[cap.domainMatch[e.domain]] \in Nat
    BY <1>1 DEF DomainScore, CapabilityDescriptor, MatchKinds
  <2> HIDE DEF e
  <2> DEFINE forName    == NameScore[cap.nameMatch[e.name]]
             forDomain  == DomainScore[cap.domainMatch[e.domain]]
             forClass   == IF cap.opClass = e.opClass THEN 4 ELSE 0
             forBinding == IF PreferredBinding(e) \in Elements(cap.bindings) THEN 3 ELSE 0
             forHint    == IF cap.id \in e.hints THEN 1 ELSE 0
  <2>3. Score(e, cap) = forName + forDomain + forClass + forBinding + forHint
    BY DEF Score
  <2>4. forClass \in Nat /\ forBinding \in Nat /\ forHint \in Nat
    OBVIOUS
  <2> HIDE DEF forName, forDomain, forClass, forBinding, forHint
  <2>5. forName \in Nat /\ forDomain \in Nat
    BY <2>1, <2>2 DEF forName, forDomain
  <2>6. QED
    BY <2>3, <2>4, <2>5
<1> HIDE DEF e
<1>3. ASSUME NEW c \in scored
      PROVE  /\ c.place \in DOMAIN registry /\ c = of(c.place)
             /\ Reaches(q.trust, c.cap.minTrust)
  BY <1>1 DEF Scored
<1> HIDE DEF scored
<1>4. \A c, d \in scored : c.place = d.place => c = d
  <2> HIDE DEF of
  <2>1. QED
    BY <1>3
<1>5. IsFiniteSet(scored)
  <2>1. IsFiniteSet(DOMAIN registry)
    <3>1. DOMAIN registry = 1..Len(registry) /\ Len(registry) \in Nat
      OBVIOUS
    <3>2. QED
      BY <3>1, FS_Interval
  <2> DEFINE f == [c \in scored |-> c.place]
  <2>2. f \in [scored -> DOMAIN registry]
    BY <1>3
  <2>3. \A c, d \in scored : f[c] = f[d] => c = d
    BY <1>4
  <2> HIDE DEF f
  <2>4. f \in Injection(scored, DOMAIN registry)
    BY <2>2, <2>3 DEF Injection, IsInjective
  <2>5. QED
    BY <2>1, <2>4, FS_Injection
<1>6. ASSUME NEW c \in scored
      PROVE  /\ c.cap \in Elements(registry) /\ c.cap \in CapabilityDescriptor
             /\ c.score \in Nat /\ c.place \in Nat
  BY <1>2, <1>3 DEF Elements
<1>7. FindMatches(e, registry) \subseteq scored
  BY DEF FindMatches, scored
<1>8. IsFiniteSet(FindMatches(e, registry))
  BY <1>5, <1>7, FS_Subset
<1> HIDE DEF of
<1>9. QED
  BY <1>3, <1>4, <1>6, <1>7, <1>8 DEF e

\* The sorted answer of find_matches has the matches in it and nothing else.
LEMMA RankedOrigin ==
  ASSUME NEW q \in DiscoveryRequest, NEW opClass \in OperationClasses,
         NEW registry \in Seq(CapabilityDescriptor)
  PROVE  /\ Ranked(q, opClass, registry) \in Seq(Entry)
         /\ \A f \in Elements(Ranked(q, opClass, registry)) : Origin(f, q, registry)
<1> DEFINE matches == FindMatches(Lookup(q, opClass), registry)
           rank(c) == Cardinality({d \in matches : Before(d, c)})
           order == {p \in matches \X matches : Before(p[1], p[2])}
           chosen(n) == CHOOSE c \in matches : rank(c) = n - 1
           entry(c) == [id |-> c.cap.id, cap |-> c.cap, score |-> c.score]
<1>1. /\ IsFiniteSet(matches)
      /\ \A c \in matches :
           /\ c.cap \in Elements(registry) /\ c.cap \in CapabilityDescriptor
           /\ c.score \in Nat /\ c.place \in Nat
           /\ Reaches(q.trust, c.cap.minTrust)
      /\ \A c, d \in matches : c.place = d.place => c = d
  BY MatchesFound
<1>2. Ranked(q, opClass, registry) = [n \in 1..Cardinality(matches) |-> entry(chosen(n))]
  BY DEF Ranked
<1> HIDE DEF matches
<1>3. \A c, d \in matches : <<d, c>> \in order <=> Before(d, c)
  OBVIOUS
<1>4. StrictTotal(order, matches)
  <2>1. /\ \A c \in matches : ~Before(c, c)
        /\ \A c, d \in matches : c # d => Before(c, d) \/ Before(d, c)
        /\ \A c, d, x \in matches : Before(c, d) /\ Before(d, x) => Before(c, x)
    BY <1>1 DEF Before
  <2> HIDE DEF order
  <2>2. QED
    BY <1>3, <2>1 DEF StrictTotal
<1>5. ASSUME NEW c \in matches PROVE Rank(c, order, matches) = rank(c)
  <2>1. {d \in matches : <<d, c>> \in order} = {d \in matches : Before(d, c)}
    BY <1>3
  <2>2. QED
    BY <2>1 DEF Rank
<1> HIDE DEF order, rank
<1>6. /\ Cardinality(matches) \in Nat
      /\ \A n \in 1..Cardinality(matches) : \E c \in matches : Rank(c, order, matches) = n - 1
  BY <1>1, <1>4, Ranking
<1>7. \A n \in 1..Cardinality(matches) : chosen(n) \in matches
  BY <1>5, <1>6
<1> HIDE DEF chosen
<1>8. ASSUME NEW c \in matches PROVE Origin(entry(c), q, registry)
  BY <1>1 DEF Origin, Entry, CapabilityDescriptor
<1>9. \A n \in 1..Cardinality(matches) : Origin(entry(chosen(n)), q, registry)
  BY <1>7, <1>8
<1> HIDE DEF entry
<1>10. Ranked(q, opClass, registry) \in [1..Cardinality(matches) -> Entry]
  BY <1>2, <1>9 DEF Origin
<1>11. Ranked(q, opClass, registry) \in Seq(Entry)
  BY <1>6, <1>10, IsASeq
<1>12. QED
  BY <1>2, <1>9, <1>11 DEF Elements

\* The first of the places of an id.
LEMMA FirstPlaceFound ==
  ASSUME NEW all \in Seq(Entry), NEW i \in DOMAIN all
  PROVE  /\ FirstPlace(all, all[i].id) \in DOMAIN all
         /\ all[FirstPlace(all, all[i].id)].id = all[i].id
<1> DEFINE T == {j \in DOMAIN all : all[j].id = all[i].id}
<1>1. T \subseteq Nat /\ T # {}
  OBVIOUS
<1>2. FirstPlace(all, all[i].id) = CHOOSE m \in T : \A k \in T : m <= k
  BY DEF FirstPlace, Min
<1>3. \E m \in T : \A k \in T : m <= k
  <2> HIDE DEF T
  <2>1. QED
    BY <1>1, Least
<1>4. FirstPlace(all, all[i].id) \in T
  <2> HIDE DEF T
  <2>1. QED
    BY <1>2, <1>3
<1>5. QED
  BY <1>4
\* The best of each id are entries of the list they were chosen from.
LEMMA BestAreEntries ==
  ASSUME NEW all \in Seq(Entry)
  PROVE  /\ BestOfEach(all) \in Seq(Entry)
         /\ Elements(BestOfEach(all)) \subseteq Elements(all)
<1> DEFINE best == BestPlaces(all)
           rank(i) == Cardinality({j \in best : BetterPlace(all, j, i)})
           order == {p \in best \X best : BetterPlace(all, p[1], p[2])}
           chosen(k) == CHOOSE i \in best : rank(i) = k - 1
           first(i) == FirstPlace(all, all[i].id)
<1>1. DOMAIN all = 1..Len(all) /\ Len(all) \in Nat /\ best \subseteq DOMAIN all
  BY DEF BestPlaces
<1>2. \A i \in best : i \in Nat /\ all[i].score \in Nat
  <2>1. \A i \in DOMAIN all : all[i] \in Entry /\ i \in Nat
    BY <1>1
  <2>2. \A i \in DOMAIN all : all[i].score \in Nat
    BY <2>1 DEF Entry
  <2>3. QED
    BY <1>1, <2>1, <2>2
<1>3. IsFiniteSet(best)
  <2>1. IsFiniteSet(DOMAIN all)
    BY <1>1, FS_Interval
  <2>2. QED
    BY <1>1, <2>1, FS_Subset
<1>4. ASSUME NEW i \in best, NEW j \in best, all[i].id = all[j].id PROVE i = j
  <2>1. ~(i < j)
    <3>1. i < j => i \in 1..(j - 1)
      BY <1>1, <1>2
    <3>2. i < j => all[i].score < all[j].score /\ all[j].score <= all[i].score
      BY <1>1, <1>4, <3>1 DEF BestPlaces
    <3>3. QED
      BY <1>2, <3>2
  <2>2. ~(j < i)
    <3>1. j < i => j \in 1..(i - 1)
      BY <1>1, <1>2
    <3>2. j < i => all[j].score < all[i].score /\ all[i].score <= all[j].score
      BY <1>1, <1>4, <3>1 DEF BestPlaces
    <3>3. QED
      BY <1>2, <3>2
  <2>3. QED
    BY <1>2, <2>1, <2>2
<1>5. \A i \in best : first(i) \in Nat /\ all[first(i)].id = all[i].id
  BY <1>1, FirstPlaceFound
<1>6. \A i, j \in best : first(i) = first(j) => i = j
  BY <1>4, <1>5
<1>7. \A i, j \in best : BetterPlace(all, i, j) <=>
        \/ all[i].score > all[j].score
        \/ all[i].score = all[j].score /\ first(i) < first(j)
  BY DEF BetterPlace
<1>8. BestOfEach(all) = [k \in 1..Cardinality(best) |-> all[chosen(k)]]
  BY DEF BestOfEach
<1> HIDE DEF best
<1>9. \A i, j \in best : <<j, i>> \in order <=> BetterPlace(all, j, i)
  OBVIOUS
<1>10. StrictTotal(order, best)
  <2> HIDE DEF first
  <2>1. /\ \A i \in best : ~BetterPlace(all, i, i)
        /\ \A i, j \in best : i # j => BetterPlace(all, i, j) \/ BetterPlace(all, j, i)
    BY <1>2, <1>5, <1>6, <1>7
  <2>2. \A i, j, k \in best :
          BetterPlace(all, i, j) /\ BetterPlace(all, j, k) => BetterPlace(all, i, k)
    BY <1>2, <1>5, <1>7
  <2> HIDE DEF order
  <2>3. QED
    BY <1>9, <2>1, <2>2 DEF StrictTotal
<1>11. ASSUME NEW i \in best PROVE Rank(i, order, best) = rank(i)
  <2>1. {j \in best : <<j, i>> \in order} = {j \in best : BetterPlace(all, j, i)}
    BY <1>9
  <2>2. QED
    BY <2>1 DEF Rank
<1> HIDE DEF order, rank
<1>12. /\ Cardinality(best) \in Nat
       /\ \A k \in 1..Cardinality(best) : \E i \in best : Rank(i, order, best) = k - 1
  BY <1>3, <1>10, Ranking
<1>13. \A k \in 1..Cardinality(best) : chosen(k) \in best
  BY <1>11, <1>12
<1> HIDE DEF chosen
<1>14. BestOfEach(all) \in [1..Cardinality(best) -> Entry]
  BY <1>1, <1>8, <1>13
<1>15. BestOfEach(all) \in Seq(Entry)
  BY <1>12, <1>14, IsASeq
<1>16. QED
  BY <1>1, <1>8, <1>13, <1>15 DEF Elements

\* Whatever a broker finds is registered with it and, if the query names anything,
\* within reach of the tier it was asked with.
LEMMA FoundOrigin ==
  ASSUME NEW b \in Brokers, NEW q \in Requests
  PROVE  /\ Found[b][q] \in Seq(Entry)
         /\ \A f \in Elements(Found[b][q]) : Origin(f, q, Registries[b])
<1> DEFINE registry == Registries[b]
<1>1. q \in DiscoveryRequest /\ registry \in Seq(CapabilityDescriptor)
  BY FederationAssumption
<1>2. Found[b][q] = DiscoverLocal(q, registry)
  BY DEF Found
<1> HIDE DEF registry
<1>3. CASE ~HasQuery(q)
  <2>1. DiscoverLocal(q, registry) = Everything(registry)
    BY <1>3 DEF DiscoverLocal
  <2>2. \A i \in DOMAIN registry :
          Origin([id |-> registry[i].id, cap |-> registry[i], score |-> 0], q, registry)
    <3> SUFFICES ASSUME NEW i \in DOMAIN registry
                 PROVE  Origin([id |-> registry[i].id, cap |-> registry[i], score |-> 0],
                               q, registry)
      OBVIOUS
    <3>1. registry[i] \in CapabilityDescriptor /\ registry[i] \in Elements(registry)
      BY <1>1 DEF Elements
    <3>2. registry[i].id \in CapIds
      BY <3>1 DEF CapabilityDescriptor
    <3>3. QED
      BY <1>3, <3>1, <3>2 DEF Origin, Entry
  <2>3. /\ Everything(registry) \in [1..Len(registry) -> Entry]
        /\ Len(registry) \in Nat
        /\ \A f \in Elements(Everything(registry)) : Origin(f, q, registry)
    BY <1>1, <2>2 DEF Everything, Elements, Origin
  <2>4. QED
    BY <1>2, <2>1, <2>3, IsASeq DEF registry
<1>4. CASE HasQuery(q) /\ q.opClass # None
  <2>1. q.opClass \in OperationClasses
    BY <1>1, <1>4 DEF DiscoveryRequest
  <2>2. DiscoverLocal(q, registry) = Ranked(q, q.opClass, registry)
    BY <1>4 DEF DiscoverLocal
  <2>3. QED
    BY <1>1, <1>2, <2>1, <2>2, RankedOrigin DEF registry
<1>5. CASE HasQuery(q) /\ q.opClass = None
  <2> DEFINE of(opClass) == Ranked(q, opClass, registry)
             OK(s) == s \in Seq(Entry) /\ \A f \in Elements(s) : Origin(f, q, registry)
             all == of("read") \o of("write") \o of("execute")
                      \o of("analyze") \o of("retrieve") \o of("delegate")
  <2>1. \A opClass \in OperationClasses : OK(of(opClass))
    BY <1>1, RankedOrigin
  <2>2. ASSUME NEW s, NEW t, OK(s), OK(t) PROVE OK(s \o t)
    BY <2>2, ConcatElements, ConcatProperties
  <2>3. OK(of("read")) /\ OK(of("write")) /\ OK(of("execute"))
        /\ OK(of("analyze")) /\ OK(of("retrieve")) /\ OK(of("delegate"))
    BY <2>1 DEF OperationClasses
  <2>4. DiscoverLocal(q, registry) = FirstOf(BestOfEach(all), 2 * q.maxResults)
    BY <1>5 DEF DiscoverLocal, RankedInAnyClass
  <2> HIDE DEF of, OK
  <2>5. OK(all)
    BY <2>2, <2>3
  <2> HIDE DEF all
  <2>6. BestOfEach(all) \in Seq(Entry) /\ Elements(BestOfEach(all)) \subseteq Elements(all)
    BY <2>5, BestAreEntries DEF OK
  <2>7. 2 * q.maxResults \in Nat
    <3>1. q.maxResults \in 1..100
      BY <1>1 DEF DiscoveryRequest
    <3>2. QED
      BY <3>1
  <2>8. /\ FirstOf(BestOfEach(all), 2 * q.maxResults) \in Seq(Entry)
        /\ Elements(FirstOf(BestOfEach(all), 2 * q.maxResults)) \subseteq Elements(all)
    BY <2>6, <2>7, FirstOfType
  <2>9. QED
    BY <1>2, <2>4, <2>5, <2>8 DEF OK, registry
<1>6. QED
  BY <1>3, <1>4, <1>5
--------------------------------------------------------------------------------
(* Sorting loses nothing and adds nothing.                                  *)

LEMMA CandidateFields ==
  ASSUME NEW c \in DiscoveryCandidate
  PROVE  /\ c.peerTrust \in Int /\ c.score \in Int
         /\ c.source \in Brokers => c.source \in Int
         /\ c.source # None => c.source \in Int
<1>1. c.peerTrust \in Nat /\ c.score \in Nat /\ c.source \in Brokers \cup {None}
  BY DEF DiscoveryCandidate
<1>2. \A b \in Brokers : b \in Int
  BY DiscoveryAssumption
<1>3. QED
  BY <1>1, <1>2

\* Where sorted puts what came from peers: before and after whom, and how far from the front.
RemoteComes(s, j, i) == RemoteBefore(s[j], s[i]) \/ (~RemoteBefore(s[i], s[j]) /\ j < i)

RemoteRank(s, i) == Cardinality({j \in DOMAIN s : RemoteComes(s, j, i)})

FromBrokers(s) == \A c \in Elements(s) : c.source \in Brokers

\* Every place from the first to the last is taken, each by one candidate.
LEMMA RemotePlaces ==
  ASSUME NEW s \in Seq(DiscoveryCandidate), FromBrokers(s)
  PROVE  /\ \A k \in 1..Len(s) : \E i \in DOMAIN s : RemoteRank(s, i) = k - 1
         /\ \A i \in DOMAIN s : RemoteRank(s, i) \in 0..(Len(s) - 1)
         /\ \A i, j \in DOMAIN s : RemoteRank(s, i) = RemoteRank(s, j) => i = j
         /\ StableSort(s, RemoteBefore) =
              [k \in DOMAIN s |-> s[CHOOSE i \in DOMAIN s : RemoteRank(s, i) = k - 1]]
<1> DEFINE D == DOMAIN s
           comes(j, i) == RemoteComes(s, j, i)
           rank(i) == RemoteRank(s, i)
           order == {p \in D \X D : comes(p[1], p[2])}
<1>1. D = 1..Len(s) /\ Len(s) \in Nat /\ \A i \in D : i \in Nat
  OBVIOUS
<1>2. IsFiniteSet(D) /\ Cardinality(D) = Len(s)
  BY <1>1, FS_Interval
<1>3. StableSort(s, RemoteBefore) = [k \in D |-> s[CHOOSE i \in D : rank(i) = k - 1]]
  BY DEF StableSort, RemoteRank, RemoteComes
<1> DEFINE trust(i) == s[i].peerTrust
           score(i) == s[i].score
           source(i) == s[i].source
<1>4. \A i \in D : trust(i) \in Int /\ score(i) \in Int /\ source(i) \in Int
  <2>1. \A i \in D : s[i] \in DiscoveryCandidate /\ s[i].source \in Brokers
    BY <1>1 DEF Elements, FromBrokers
  <2>2. QED
    BY <2>1, CandidateFields
<1>a. \A i, j \in D : comes(i, j) <=>
        \/ trust(i) > trust(j)
        \/ trust(i) = trust(j) /\ score(i) > score(j)
        \/ trust(i) = trust(j) /\ score(i) = score(j) /\ source(i) < source(j)
        \/ trust(i) = trust(j) /\ score(i) = score(j) /\ source(i) = source(j) /\ i < j
  <2> SUFFICES ASSUME NEW i \in D, NEW j \in D PROVE comes(i, j) <=>
        \/ trust(i) > trust(j)
        \/ trust(i) = trust(j) /\ score(i) > score(j)
        \/ trust(i) = trust(j) /\ score(i) = score(j) /\ source(i) < source(j)
        \/ trust(i) = trust(j) /\ score(i) = score(j) /\ source(i) = source(j) /\ i < j
    OBVIOUS
  <2>1. /\ trust(i) \in Int /\ score(i) \in Int /\ source(i) \in Int
        /\ trust(j) \in Int /\ score(j) \in Int /\ source(j) \in Int
    BY <1>4
  <2>2. QED
    BY <2>1 DEF RemoteBefore, RemoteComes
<1> HIDE DEF trust, score, source
<1>5. /\ \A i \in D : ~comes(i, i)
      /\ \A i, j \in D : i # j => comes(i, j) \/ comes(j, i)
      /\ \A i, j, k \in D : comes(i, j) /\ comes(j, k) => comes(i, k)
  <2> HIDE DEF comes, D
  <2>1. \A i \in D : ~comes(i, i)
    BY <1>1, <1>4, <1>a
  <2>2. ASSUME NEW i \in D, NEW j \in D, i # j PROVE comes(i, j) \/ comes(j, i)
    BY <1>1, <1>4, <1>a, <2>2
  <2>3. ASSUME NEW i \in D, NEW j \in D, NEW k \in D, comes(i, j), comes(j, k)
        PROVE  comes(i, k)
    <3>1. /\ trust(i) \in Int /\ score(i) \in Int /\ source(i) \in Int /\ i \in Int
          /\ trust(j) \in Int /\ score(j) \in Int /\ source(j) \in Int /\ j \in Int
          /\ trust(k) \in Int /\ score(k) \in Int /\ source(k) \in Int /\ k \in Int
      BY <1>1, <1>4
    <3>2. \/ trust(i) > trust(j)
          \/ trust(i) = trust(j) /\ score(i) > score(j)
          \/ trust(i) = trust(j) /\ score(i) = score(j) /\ source(i) < source(j)
          \/ trust(i) = trust(j) /\ score(i) = score(j) /\ source(i) = source(j) /\ i < j
      BY <1>a, <2>3
    <3>3. \/ trust(j) > trust(k)
          \/ trust(j) = trust(k) /\ score(j) > score(k)
          \/ trust(j) = trust(k) /\ score(j) = score(k) /\ source(j) < source(k)
          \/ trust(j) = trust(k) /\ score(j) = score(k) /\ source(j) = source(k) /\ j < k
      BY <1>a, <2>3
    <3>4. \/ trust(i) > trust(k)
          \/ trust(i) = trust(k) /\ score(i) > score(k)
          \/ trust(i) = trust(k) /\ score(i) = score(k) /\ source(i) < source(k)
          \/ trust(i) = trust(k) /\ score(i) = score(k) /\ source(i) = source(k) /\ i < k
      BY <3>1, <3>2, <3>3
    <3>5. QED
      BY <1>a, <3>4
  <2>4. QED
    BY <2>1, <2>2, <2>3
<1> HIDE DEF comes
<1>6. \A i, j \in D : <<j, i>> \in order <=> comes(j, i)
  OBVIOUS
<1> HIDE DEF order
<1>7. StrictTotal(order, D)
  BY <1>5, <1>6 DEF StrictTotal
<1>8. ASSUME NEW i \in D PROVE Rank(i, order, D) = rank(i)
  <2>1. {j \in D : <<j, i>> \in order} = {j \in D : comes(j, i)}
    BY <1>6
  <2>2. QED
    BY <2>1 DEF Rank, RemoteRank, comes
<1> HIDE DEF rank, D
<1>9. /\ \A k \in 1..Len(s) : \E i \in D : rank(i) = k - 1
      /\ \A i \in D : rank(i) \in 0..(Len(s) - 1)
      /\ \A i, j \in D : rank(i) = rank(j) => i = j
  <2>1. /\ \A i \in D : Rank(i, order, D) \in 0..(Len(s) - 1)
        /\ \A i, j \in D : Rank(i, order, D) = Rank(j, order, D) => i = j
        /\ \A k \in 1..Len(s) : \E i \in D : Rank(i, order, D) = k - 1
    BY <1>2, <1>7, Ranking
  <2>2. QED
    BY <1>8, <2>1
<1>10. QED
  BY <1>3, <1>9 DEF D, rank

\* What came from peers, sorted by trust, score and peer.
LEMMA RemotesSorted ==
  ASSUME NEW s \in Seq(DiscoveryCandidate), FromBrokers(s)
  PROVE  /\ StableSort(s, RemoteBefore) \in Seq(DiscoveryCandidate)
         /\ Len(StableSort(s, RemoteBefore)) = Len(s)
         /\ Elements(StableSort(s, RemoteBefore)) = Elements(s)
<1> DEFINE D == DOMAIN s
           rank(i) == RemoteRank(s, i)
           place(k) == CHOOSE i \in D : rank(i) = k - 1
           sorted == StableSort(s, RemoteBefore)
<1>1. D = 1..Len(s) /\ Len(s) \in Nat
  OBVIOUS
<1>2. \A i \in D : s[i] \in DiscoveryCandidate
  OBVIOUS
<1>3. sorted = [k \in D |-> s[place(k)]]
  BY RemotePlaces
<1> HIDE DEF D
<1>4. /\ \A k \in 1..Len(s) : \E i \in D : rank(i) = k - 1
      /\ \A i \in D : rank(i) \in 0..(Len(s) - 1)
      /\ \A i, j \in D : rank(i) = rank(j) => i = j
  BY RemotePlaces DEF D
<1> HIDE DEF rank
<1>5. \A k \in D : place(k) \in D /\ rank(place(k)) = k - 1
  BY <1>1, <1>4
<1> HIDE DEF place
<1>6. ASSUME NEW i \in D PROVE \E k \in D : place(k) = i
  <2>1. rank(i) \in 0..(Len(s) - 1)
    BY <1>4
  <2>2. rank(i) + 1 \in D /\ (rank(i) + 1) - 1 = rank(i)
    BY <1>1, <2>1
  <2>3. QED
    BY <1>4, <1>5, <2>2
<1> HIDE DEF sorted
<1>7. sorted \in [1..Len(s) -> DiscoveryCandidate]
  <2>1. \A i \in D : s[i] \in DiscoveryCandidate
    BY <1>1
  <2>2. QED
    BY <1>1, <1>3, <1>5, <2>1
<1>8. sorted \in Seq(DiscoveryCandidate) /\ Len(sorted) = Len(s) /\ DOMAIN sorted = D
  BY <1>1, <1>7, IsASeq, LenProperties
<1>9. Elements(sorted) = Elements(s)
  <2>1. \A k \in D : sorted[k] = s[place(k)]
    BY <1>3
  <2>2. Elements(sorted) = {sorted[k] : k \in D} /\ Elements(s) = {s[i] : i \in D}
    BY <1>8 DEF Elements, D
  <2>3. QED
    BY <1>5, <1>6, <2>1, <2>2
<1>10. QED
  BY <1>8, <1>9 DEF sorted

\* Sorting forgets in which order the peers answered: candidates that tie come from one
\* peer, whose order is kept.
LEMMA ShuffleSorted ==
  ASSUME NEW s \in Seq(DiscoveryCandidate), FromBrokers(s), NEW p \in Shuffles(s)
  PROVE  StableSort(Shuffled(s, p), RemoteBefore) = StableSort(s, RemoteBefore)
<1> DEFINE D == DOMAIN s
           t == Shuffled(s, p)
           placeIn(r, k) == CHOOSE i \in D : RemoteRank(r, i) = k - 1
<1>1. D = 1..Len(s) /\ Len(s) \in Nat /\ \A i \in D : i \in Nat
  OBVIOUS
<1>2. p \in Bijection(D, D) /\ \A i, j \in D : s[p[i]].source = s[p[j]].source /\ i < j => p[i] < p[j]
  BY DEF Shuffles
<1>3. /\ p \in [D -> D]
      /\ \A i, j \in D : p[i] = p[j] => i = j
      /\ \A k \in D : \E i \in D : p[i] = k
  BY <1>2 DEF Bijection, Injection, IsInjective, Surjection
<1>4. \A i \in D : s[i] \in DiscoveryCandidate /\ s[i].source \in Brokers
  BY DEF FromBrokers, Elements
<1>5. t = [k \in D |-> s[p[k]]]
  BY DEF Shuffled
<1> HIDE DEF D, t
<1>6. t \in Seq(DiscoveryCandidate) /\ DOMAIN t = D /\ Len(t) = Len(s)
  <2>1. t \in [1..Len(s) -> DiscoveryCandidate]
    BY <1>1, <1>3, <1>4, <1>5
  <2>2. QED
    BY <1>1, <2>1, IsASeq, LenProperties
<1>7. \A i \in D : t[i] = s[p[i]]
  BY <1>5
<1>8. FromBrokers(t)
  BY <1>3, <1>4, <1>6, <1>7 DEF FromBrokers, Elements
<1>9. ASSUME NEW i \in D, NEW j \in D
      PROVE  RemoteComes(t, j, i) <=> RemoteComes(s, p[j], p[i])
  <2> DEFINE c == s[p[i]]
             d == s[p[j]]
  <2>1. /\ c \in DiscoveryCandidate /\ c.source \in Brokers
        /\ d \in DiscoveryCandidate /\ d.source \in Brokers
    BY <1>3, <1>4
  <2>2. t[i] = c /\ t[j] = d
    BY <1>7
  <2>3. i \in Nat /\ j \in Nat /\ p[i] \in Nat /\ p[j] \in Nat
    BY <1>1, <1>3
  <2>4. /\ i < j /\ c.source = d.source => p[i] < p[j]
        /\ j < i /\ d.source = c.source => p[j] < p[i]
    BY <1>2
  <2>5. i = j => p[i] = p[j]
    OBVIOUS
  <2> HIDE DEF c, d
  <2>6. ~RemoteBefore(c, d) /\ ~RemoteBefore(d, c) => c.source = d.source
    <3>1. /\ c.peerTrust \in Int /\ c.score \in Int /\ c.source \in Int
          /\ d.peerTrust \in Int /\ d.score \in Int /\ d.source \in Int
      BY <2>1, CandidateFields
    <3>2. QED
      BY <3>1 DEF RemoteBefore
  <2>7. c.source = d.source => (j < i <=> p[j] < p[i])
    BY <2>3, <2>4, <2>5
  <2>8. /\ RemoteComes(t, j, i) <=> RemoteBefore(d, c) \/ (~RemoteBefore(c, d) /\ j < i)
        /\ RemoteComes(s, p[j], p[i]) <=> RemoteBefore(d, c) \/ (~RemoteBefore(c, d) /\ p[j] < p[i])
    BY <2>2 DEF RemoteComes, c, d
  <2>9. QED
    BY <2>6, <2>7, <2>8
<1>10. ASSUME NEW i \in D PROVE RemoteRank(t, i) = RemoteRank(s, p[i])
  <2> DEFINE A == {j \in D : RemoteComes(t, j, i)}
             B == {j \in D : RemoteComes(s, j, p[i])}
             f == [j \in A |-> p[j]]
  <2>1. f \in [A -> B]
    BY <1>3, <1>9
  <2>2. \A j, k \in A : f[j] = f[k] => j = k
    BY <1>3
  <2>3. ASSUME NEW k \in B PROVE \E j \in A : f[j] = k
    <3>1. PICK j \in D : p[j] = k
      BY <1>3
    <3>2. j \in A
      BY <1>9, <3>1
    <3>3. QED
      BY <3>1, <3>2
  <2>4. IsFiniteSet(A)
    <3>1. IsFiniteSet(D) /\ A \subseteq D
      BY <1>1, FS_Interval
    <3>2. QED
      BY <3>1, FS_Subset
  <2> HIDE DEF A, B, f
  <2>5. f \in Bijection(A, B)
    BY <2>1, <2>2, <2>3 DEF Bijection, Injection, IsInjective, Surjection
  <2>6. Cardinality(B) = Cardinality(A)
    BY <2>4, <2>5, FS_Bijection DEF ExistsBijection
  <2>7. QED
    BY <1>6, <2>6 DEF RemoteRank, A, B, D
<1>11. ASSUME NEW k \in D PROVE t[placeIn(t, k)] = s[placeIn(s, k)]
  <2>1. /\ \E i \in D : RemoteRank(t, i) = k - 1
        /\ \E i \in D : RemoteRank(s, i) = k - 1
        /\ \A i, j \in D : RemoteRank(s, i) = RemoteRank(s, j) => i = j
    <3>1. k \in 1..Len(s) /\ k \in 1..Len(t)
      BY <1>1, <1>6
    <3>2. /\ \A n \in 1..Len(t) : \E i \in DOMAIN t : RemoteRank(t, i) = n - 1
          /\ \A n \in 1..Len(s) : \E i \in DOMAIN s : RemoteRank(s, i) = n - 1
          /\ \A i, j \in DOMAIN s : RemoteRank(s, i) = RemoteRank(s, j) => i = j
      BY <1>6, <1>8, RemotePlaces
    <3>3. QED
      BY <1>6, <3>1, <3>2 DEF D
  <2>2. /\ placeIn(t, k) \in D /\ RemoteRank(t, placeIn(t, k)) = k - 1
        /\ placeIn(s, k) \in D /\ RemoteRank(s, placeIn(s, k)) = k - 1
    BY <2>1
  <2> HIDE DEF placeIn
  <2>3. p[placeIn(t, k)] = placeIn(s, k)
    BY <1>3, <1>10, <2>1, <2>2
  <2>4. QED
    BY <1>7, <2>2, <2>3
<1>12. /\ StableSort(t, RemoteBefore) = [k \in D |-> t[placeIn(t, k)]]
       /\ StableSort(s, RemoteBefore) = [k \in D |-> s[placeIn(s, k)]]
  <2>1. /\ StableSort(t, RemoteBefore) =
             [k \in DOMAIN t |-> t[CHOOSE i \in DOMAIN t : RemoteRank(t, i) = k - 1]]
        /\ StableSort(s, RemoteBefore) =
             [k \in DOMAIN s |-> s[CHOOSE i \in DOMAIN s : RemoteRank(s, i) = k - 1]]
    BY <1>6, <1>8, RemotePlaces
  <2>2. QED
    BY <1>6, <2>1 DEF D
<1> HIDE DEF placeIn
<1>13. QED
  BY <1>11, <1>12 DEF t

\* Local and remote candidates, sorted by score and broker.
LEMMA AllSorted ==
  ASSUME NEW s \in Seq(DiscoveryCandidate)
  PROVE  /\ StableSort(s, MergedBefore) \in Seq(DiscoveryCandidate)
         /\ Len(StableSort(s, MergedBefore)) = Len(s)
         /\ Elements(StableSort(s, MergedBefore)) = Elements(s)
<1> DEFINE D == DOMAIN s
           comes(j, i) == MergedBefore(s[j], s[i]) \/ (~MergedBefore(s[i], s[j]) /\ j < i)
           rank(i) == Cardinality({j \in D : comes(j, i)})
           order == {p \in D \X D : comes(p[1], p[2])}
           place(k) == CHOOSE i \in D : rank(i) = k - 1
           sorted == StableSort(s, MergedBefore)
<1>1. D = 1..Len(s) /\ Len(s) \in Nat /\ \A i \in D : i \in Nat
  OBVIOUS
<1>2. IsFiniteSet(D) /\ Cardinality(D) = Len(s)
  BY <1>1, FS_Interval
<1>3. sorted = [k \in D |-> s[place(k)]]
  BY DEF StableSort
<1> DEFINE score(i) == s[i].score
           at(i) == IF s[i].source = None THEN 0 ELSE s[i].source
<1>4. \A i \in D : score(i) \in Int /\ at(i) \in Int
  <2>1. \A i \in D : s[i] \in DiscoveryCandidate
    BY <1>1
  <2>2. QED
    BY <2>1, CandidateFields
<1>a. \A i, j \in D : comes(i, j) <=>
        \/ score(i) > score(j)
        \/ score(i) = score(j) /\ at(i) < at(j)
        \/ score(i) = score(j) /\ at(i) = at(j) /\ i < j
  <2> SUFFICES ASSUME NEW i \in D, NEW j \in D PROVE comes(i, j) <=>
        \/ score(i) > score(j)
        \/ score(i) = score(j) /\ at(i) < at(j)
        \/ score(i) = score(j) /\ at(i) = at(j) /\ i < j
    OBVIOUS
  <2>1. score(i) \in Int /\ at(i) \in Int /\ score(j) \in Int /\ at(j) \in Int
    BY <1>4
  <2>2. /\ MergedBefore(s[i], s[j]) <=> score(i) > score(j) \/ (score(i) = score(j) /\ at(i) < at(j))
        /\ MergedBefore(s[j], s[i]) <=> score(j) > score(i) \/ (score(j) = score(i) /\ at(j) < at(i))
    BY DEF MergedBefore
  <2> HIDE DEF score, at
  <2>3. QED
    BY <2>1, <2>2
<1> HIDE DEF score, at
<1>5. /\ \A i \in D : ~comes(i, i)
      /\ \A i, j \in D : i # j => comes(i, j) \/ comes(j, i)
      /\ \A i, j, k \in D : comes(i, j) /\ comes(j, k) => comes(i, k)
  <2> HIDE DEF comes, D
  <2>1. \A i \in D : ~comes(i, i)
    BY <1>1, <1>4, <1>a
  <2>2. ASSUME NEW i \in D, NEW j \in D, i # j PROVE comes(i, j) \/ comes(j, i)
    BY <1>1, <1>4, <1>a, <2>2
  <2>3. ASSUME NEW i \in D, NEW j \in D, NEW k \in D, comes(i, j), comes(j, k)
        PROVE  comes(i, k)
    BY <1>1, <1>4, <1>a, <2>3
  <2>4. QED
    BY <2>1, <2>2, <2>3
<1> HIDE DEF comes
<1>6. \A i, j \in D : <<j, i>> \in order <=> comes(j, i)
  OBVIOUS
<1> HIDE DEF order
<1>7. StrictTotal(order, D)
  BY <1>5, <1>6 DEF StrictTotal
<1>8. ASSUME NEW i \in D PROVE Rank(i, order, D) = rank(i)
  <2>1. {j \in D : <<j, i>> \in order} = {j \in D : comes(j, i)}
    BY <1>6
  <2>2. QED
    BY <2>1 DEF Rank
<1> HIDE DEF rank, D
<1>9. /\ \A k \in 1..Len(s) : \E i \in D : rank(i) = k - 1
      /\ \A i \in D : rank(i) \in 0..(Len(s) - 1)
      /\ \A i, j \in D : rank(i) = rank(j) => i = j
  <2>1. /\ \A i \in D : Rank(i, order, D) \in 0..(Len(s) - 1)
        /\ \A i, j \in D : Rank(i, order, D) = Rank(j, order, D) => i = j
        /\ \A k \in 1..Len(s) : \E i \in D : Rank(i, order, D) = k - 1
    BY <1>2, <1>7, Ranking
  <2>2. QED
    BY <1>8, <2>1
<1>10. \A k \in D : place(k) \in D /\ rank(place(k)) = k - 1
  BY <1>1, <1>9
<1> HIDE DEF place
<1>11. ASSUME NEW i \in D PROVE \E k \in D : place(k) = i
  <2>1. rank(i) \in 0..(Len(s) - 1)
    BY <1>9
  <2>2. rank(i) + 1 \in D /\ (rank(i) + 1) - 1 = rank(i)
    BY <1>1, <2>1
  <2>3. QED
    BY <1>9, <1>10, <2>2
<1> HIDE DEF sorted
<1>12. sorted \in [1..Len(s) -> DiscoveryCandidate]
  <2>1. \A i \in D : s[i] \in DiscoveryCandidate
    BY <1>1
  <2>2. QED
    BY <1>1, <1>3, <1>10, <2>1
<1>13. sorted \in Seq(DiscoveryCandidate) /\ Len(sorted) = Len(s) /\ DOMAIN sorted = D
  BY <1>1, <1>12, IsASeq, LenProperties
<1>14. Elements(sorted) = Elements(s)
  <2>1. \A k \in D : sorted[k] = s[place(k)]
    BY <1>3
  <2>2. Elements(sorted) = {sorted[k] : k \in D} /\ Elements(s) = {s[i] : i \in D}
    BY <1>13 DEF Elements, D
  <2>3. QED
    BY <1>10, <1>11, <2>1, <2>2
<1>15. QED
  BY <1>13, <1>14 DEF sorted

\* The answer before it is cut has every candidate in it; local ones come first when they
\* are preferred.
LEMMA AggregateWhole ==
  ASSUME NEW cfg \in FederationConfig, NEW locals \in Seq(DiscoveryCandidate),
         NEW remotes \in Seq(DiscoveryCandidate),
         \A c \in Elements(remotes) : c.source \in Brokers
  PROVE  LET all == Aggregate(cfg, locals, remotes)
         IN  /\ all \in Seq(DiscoveryCandidate)
             /\ Len(all) = Len(locals) + Len(remotes)
             /\ Elements(all) = Elements(locals) \cup Elements(remotes)
             /\ cfg.preferLocal => \A i \in 1..Len(locals) : all[i] = locals[i]
<1> DEFINE sorted == StableSort(remotes, RemoteBefore)
           joined == locals \o sorted
           all == Aggregate(cfg, locals, remotes)
<1>1. /\ sorted \in Seq(DiscoveryCandidate) /\ Len(sorted) = Len(remotes)
      /\ Elements(sorted) = Elements(remotes)
  BY RemotesSorted DEF FromBrokers
<1>2. all = IF cfg.preferLocal THEN joined ELSE StableSort(joined, MergedBefore)
  BY DEF Aggregate
<1> HIDE DEF sorted, all
<1>3. /\ joined \in Seq(DiscoveryCandidate)
      /\ Len(joined) = Len(locals) + Len(remotes)
      /\ \A i \in 1..(Len(locals) + Len(remotes)) :
           joined[i] = IF i <= Len(locals) THEN locals[i] ELSE sorted[i - Len(locals)]
  <2>1. /\ joined \in Seq(DiscoveryCandidate)
        /\ Len(joined) = Len(locals) + Len(sorted)
        /\ \A i \in 1..(Len(locals) + Len(sorted)) :
             joined[i] = IF i <= Len(locals) THEN locals[i] ELSE sorted[i - Len(locals)]
    BY <1>1, ConcatProperties
  <2>2. QED
    BY <1>1, <2>1
<1>4. Elements(joined) = Elements(locals) \cup Elements(remotes)
  BY <1>1, ConcatElements
<1>5. \A i \in 1..Len(locals) : joined[i] = locals[i]
  <2>1. Len(locals) \in Nat /\ Len(remotes) \in Nat
    OBVIOUS
  <2>2. \A i \in 1..Len(locals) : i \in 1..(Len(locals) + Len(remotes)) /\ i <= Len(locals)
    BY <2>1
  <2>3. QED
    BY <1>3, <2>2
<1> HIDE DEF joined
<1>6. /\ StableSort(joined, MergedBefore) \in Seq(DiscoveryCandidate)
      /\ Len(StableSort(joined, MergedBefore)) = Len(joined)
      /\ Elements(StableSort(joined, MergedBefore)) = Elements(joined)
  BY <1>3, AllSorted
<1>7. QED
  BY <1>2, <1>3, <1>4, <1>5, <1>6 DEF all

--------------------------------------------------------------------------------
(* What brokers may tell each other.                                        *)

PeerIn(cfg, b, p) ==
  cfg[b].enabled /\ \E i \in DOMAIN cfg[b].peers : cfg[b].peers[i].id = p

\* The way of what b was told of: b, and the brokers of its path.
Hop(b, path, i) == IF i = 0 THEN b ELSE path[i]

\* The candidate came from peer to peer from a holder.  With extra = 1 the holder, being
\* federated, has put its own name once more at the end of the path.
Leads(cfg, b, c, extra) ==
  LET hops == Len(c.path) - extra
  IN  /\ hops >= 0
      /\ Holds(Hop(b, c.path, hops), c.id)
      /\ cfg[Hop(b, c.path, hops)].enabled <=> extra = 1
      /\ \A i \in 0..(hops - 1) : PeerIn(cfg, Hop(b, c.path, i), Hop(b, c.path, i + 1))

\* c may be told to whoever asked b this query.
Fits(cfg, b, q, c) ==
  /\ HasQuery(q) => Reaches(q.trust, c.minTrust)
  /\ \E extra \in 0..1 : Leads(cfg, b, c, extra)

AllFit(cfg, b, q, candidates) == \A c \in Elements(candidates) : Fits(cfg, b, q, c)

\* Everything that p has of its own is among the candidates.
Complete(p, q, candidates) ==
  \A found \in Elements(Found[p][q]) : \E c \in Elements(candidates) : c.id = found.id

\* The same, under the name of p.
CompleteFrom(p, q, candidates) ==
  \A found \in Elements(Found[p][q]) :
    \E c \in Elements(candidates) : c.id = found.id /\ c.source = p

\* What a broker offers of its own.
LEMMA LocalsFit ==
  ASSUME NEW cfg \in Federations, NEW b \in Brokers, NEW q \in Requests
  PROVE  LET locals == LocalCandidates(b, cfg[b], Found[b][q])
         IN  /\ locals \in Seq(DiscoveryCandidate)
             /\ AllFit(cfg, b, q, locals)
             /\ Complete(b, q, locals)
<1> DEFINE found == Found[b][q]
           path == IF cfg[b].enabled THEN <<b>> ELSE <<>>
           of(f) == [ id |-> f.id, minTrust |-> f.cap.minTrust,
                      score |-> f.score, source |-> None, peerTrust |-> 0, routing |-> TRUE,
                      path |-> path ]
           locals == LocalCandidates(b, cfg[b], found)
<1>1. found \in Seq(Entry) /\ \A f \in Elements(found) : Origin(f, q, Registries[b])
  BY FoundOrigin
<1>2. locals = [i \in DOMAIN found |-> of(found[i])]
  BY DEF LocalCandidates
<1>3. cfg[b] \in FederationConfig
  BY FederationAssumption
<1>4. cfg[b].enabled \in BOOLEAN
  BY <1>3 DEF FederationConfig
<1>5. /\ path \in Seq(Brokers)
      /\ cfg[b].enabled => Len(path) = 1 /\ path[1] = b
      /\ ~cfg[b].enabled => Len(path) = 0
  BY <1>4
<1> HIDE DEF found, path
<1>6. ASSUME NEW f, Origin(f, q, Registries[b])
      PROVE  of(f) \in DiscoveryCandidate /\ Fits(cfg, b, q, of(f)) /\ of(f).id = f.id
  <2>1. f \in Entry /\ f.cap \in CapabilityDescriptor /\ f.id = f.cap.id
    BY <1>6 DEF Origin, Entry
  <2>2. f.id \in CapIds /\ f.score \in Nat /\ f.cap.minTrust \in TrustLevels
    BY <2>1 DEF Entry, CapabilityDescriptor
  <2>3. of(f) \in DiscoveryCandidate
    BY <1>5, <2>2 DEF DiscoveryCandidate
  <2>4. /\ of(f).path = path /\ of(f).id = f.id /\ of(f).minTrust = f.cap.minTrust
    OBVIOUS
  <2>5. Holds(b, f.id)
    <3>1. \E i \in DOMAIN Registries[b] : Registries[b][i].id = f.id
      BY <1>6, <2>1 DEF Origin, Elements
    <3>2. QED
      BY <3>1 DEF Holds, HoldsId
  <2> HIDE DEF of
  <2>6. ASSUME NEW extra \in 0..1, Len(path) = extra, cfg[b].enabled <=> extra = 1
        PROVE  Leads(cfg, b, of(f), extra)
    <3>1. Len(of(f).path) - extra = 0
      BY <2>4, <2>6
    <3>2. Hop(b, of(f).path, 0) = b
      BY DEF Hop
    <3>3. \A i \in 0..(0 - 1) : FALSE
      OBVIOUS
    <3>4. QED
      BY <2>4, <2>5, <2>6, <3>1, <3>2, <3>3 DEF Leads
  <2>7. \E extra \in 0..1 : Len(path) = extra /\ (cfg[b].enabled <=> extra = 1)
    <3>1. CASE cfg[b].enabled
      BY <1>5, <3>1
    <3>2. CASE ~cfg[b].enabled
      BY <1>5, <3>2
    <3>3. QED
      BY <3>1, <3>2
  <2>8. HasQuery(q) => Reaches(q.trust, of(f).minTrust)
    BY <1>6, <2>4 DEF Origin
  <2>9. QED
    BY <2>3, <2>4, <2>6, <2>7, <2>8 DEF Fits
<1> HIDE DEF of, locals
<1>7. DOMAIN found = 1..Len(found) /\ Len(found) \in Nat
  BY <1>1
<1>8. \A i \in DOMAIN found : Origin(found[i], q, Registries[b])
  BY <1>1 DEF Elements
<1>9. locals \in [1..Len(found) -> DiscoveryCandidate]
  BY <1>2, <1>6, <1>7, <1>8
<1>10. locals \in Seq(DiscoveryCandidate) /\ DOMAIN locals = DOMAIN found
  BY <1>7, <1>9
<1>11. \A i \in DOMAIN found : locals[i] = of(found[i])
  BY <1>2
<1>12. AllFit(cfg, b, q, locals)
  BY <1>6, <1>8, <1>10, <1>11 DEF AllFit, Elements
<1>13. Complete(b, q, locals)
  <2>1. ASSUME NEW f \in Elements(found) PROVE \E c \in Elements(locals) : c.id = f.id
    <3>1. PICK i \in DOMAIN found : f = found[i]
      BY DEF Elements
    <3>2. locals[i].id = f.id /\ locals[i] \in Elements(locals)
      BY <1>6, <1>8, <1>10, <1>11, <3>1 DEF Elements
    <3>3. QED
      BY <3>2
  <2>2. QED
    BY <2>1 DEF Complete, found
<1>14. QED
  BY <1>10, <1>12, <1>13 DEF locals, found

\* What b makes of the candidates of a peer.
LEMMA FromPeerFits ==
  ASSUME NEW cfg \in Federations, NEW b \in Brokers, NEW q \in Requests,
         NEW peer \in FederatedPeer, PeerIn(cfg, b, peer.id),
         NEW candidates \in Seq(DiscoveryCandidate), AllFit(cfg, peer.id, q, candidates)
  PROVE  LET told == FromPeer(peer, candidates)
         IN  /\ told \in Seq(DiscoveryCandidate)
             /\ Len(told) = Len(candidates)
             /\ AllFit(cfg, b, q, told)
             /\ \A c \in Elements(told) : c.source = peer.id
             /\ Complete(peer.id, q, candidates) => CompleteFrom(peer.id, q, told)
<1> DEFINE of(c) == [c EXCEPT !.source = peer.id, !.peerTrust = PeerTrust[peer.trust],
                              !.routing = Allows(peer), !.path = <<peer.id>> \o c.path]
           told == FromPeer(peer, candidates)
<1>1. told = [i \in DOMAIN candidates |-> of(candidates[i])]
  BY DEF FromPeer
<1>2. peer.id \in Brokers /\ PeerTrust[peer.trust] \in Nat /\ Allows(peer) \in BOOLEAN
  BY DEF FederatedPeer, PeerTrust, Allows
<1>3. ASSUME NEW c \in DiscoveryCandidate, Fits(cfg, peer.id, q, c)
      PROVE  /\ of(c) \in DiscoveryCandidate /\ of(c).source = peer.id /\ of(c).id = c.id
             /\ Fits(cfg, b, q, of(c))
  <2> DEFINE path == <<peer.id>> \o c.path
  <2>1. c.path \in Seq(Brokers) /\ Len(c.path) \in Nat
    BY DEF DiscoveryCandidate
  <2>2. /\ path \in Seq(Brokers) /\ Len(path) = Len(c.path) + 1
        /\ path[1] = peer.id
        /\ \A i \in 1..Len(c.path) : path[i + 1] = c.path[i]
    <3> DEFINE first == <<peer.id>>
    <3>1. first \in Seq(Brokers) /\ Len(first) = 1 /\ first[1] = peer.id
      BY <1>2
    <3> HIDE DEF first
    <3>2. /\ first \o c.path \in Seq(Brokers)
          /\ Len(first \o c.path) = Len(first) + Len(c.path)
          /\ \A i \in 1..(Len(first) + Len(c.path)) :
               (first \o c.path)[i] = IF i <= Len(first) THEN first[i] ELSE c.path[i - Len(first)]
      BY <2>1, <3>1, ConcatProperties
    <3>3. path = first \o c.path
      BY DEF first
    <3> HIDE DEF path
    <3>4. \A i \in 1..Len(c.path) : /\ i + 1 \in 1..(Len(first) + Len(c.path))
                                    /\ ~(i + 1 <= Len(first)) /\ i + 1 - Len(first) = i
      BY <2>1, <3>1
    <3>5. 1 \in 1..(Len(first) + Len(c.path)) /\ 1 <= Len(first)
      BY <2>1, <3>1
    <3>6. QED
      BY <2>1, <3>1, <3>2, <3>3, <3>4, <3>5
  <2>3. of(c) \in DiscoveryCandidate
    BY <1>2, <2>2 DEF DiscoveryCandidate
  <2>4. /\ of(c).source = peer.id /\ of(c).id = c.id /\ of(c).minTrust = c.minTrust
        /\ of(c).path = path
    BY DEF DiscoveryCandidate
  <2> HIDE DEF of, path
  <2>5. PICK extra \in 0..1 : Leads(cfg, peer.id, c, extra)
    BY <1>3 DEF Fits
  <2>6. /\ Hop(b, path, 0) = b
        /\ \A i \in 0..Len(c.path) : Hop(b, path, i + 1) = Hop(peer.id, c.path, i)
    BY <2>1, <2>2 DEF Hop
  <2> DEFINE hops == Len(c.path) - extra
  <2>7. /\ hops \in 0..Len(c.path) /\ Len(path) - extra = hops + 1
        /\ Holds(Hop(peer.id, c.path, hops), c.id)
        /\ cfg[Hop(peer.id, c.path, hops)].enabled <=> extra = 1
        /\ \A i \in 0..(hops - 1) :
             PeerIn(cfg, Hop(peer.id, c.path, i), Hop(peer.id, c.path, i + 1))
    BY <2>1, <2>2, <2>5 DEF Leads
  <2> HIDE DEF hops
  <2>8. ASSUME NEW i \in 0..hops
        PROVE  PeerIn(cfg, Hop(b, path, i), Hop(b, path, i + 1))
    <3>1. CASE i = 0
      <4>1. Hop(b, path, 0 + 1) = Hop(peer.id, c.path, 0) /\ Hop(peer.id, c.path, 0) = peer.id
        BY <2>1, <2>6 DEF Hop
      <4>2. QED
        BY <2>6, <3>1, <4>1
    <3>2. CASE i # 0
      <4>1. i - 1 \in 0..(hops - 1) /\ i - 1 \in 0..Len(c.path) /\ i \in 0..Len(c.path)
            /\ (i - 1) + 1 = i
        BY <2>1, <2>7, <3>2
      <4>2. PeerIn(cfg, Hop(peer.id, c.path, i - 1), Hop(peer.id, c.path, i))
        BY <2>7, <4>1
      <4>3. Hop(b, path, i) = Hop(peer.id, c.path, i - 1)
            /\ Hop(b, path, i + 1) = Hop(peer.id, c.path, i)
        BY <2>6, <4>1
      <4>4. QED
        BY <4>2, <4>3
    <3>3. QED
      BY <3>1, <3>2
  <2>9. Hop(b, path, hops + 1) = Hop(peer.id, c.path, hops)
    BY <2>6, <2>7
  <2>10. Leads(cfg, b, of(c), extra)
    <3>1. hops + 1 >= 0 /\ (hops + 1) - 1 = hops
      BY <2>1, <2>7
    <3>2. QED
      BY <2>4, <2>7, <2>8, <2>9, <3>1 DEF Leads
  <2>11. HasQuery(q) => Reaches(q.trust, of(c).minTrust)
    BY <1>3, <2>4 DEF Fits
  <2>12. QED
    BY <2>3, <2>4, <2>10, <2>11 DEF Fits
<1> HIDE DEF of, told
<1>4. /\ DOMAIN candidates = 1..Len(candidates) /\ Len(candidates) \in Nat
      /\ \A i \in DOMAIN candidates : candidates[i] \in DiscoveryCandidate
      /\ \A i \in DOMAIN candidates : Fits(cfg, peer.id, q, candidates[i])
  BY DEF AllFit, Elements
<1>5. \A i \in DOMAIN candidates : told[i] = of(candidates[i])
  BY <1>1
<1>6. told \in [1..Len(candidates) -> DiscoveryCandidate]
  BY <1>1, <1>3, <1>4
<1>7. /\ told \in Seq(DiscoveryCandidate) /\ Len(told) = Len(candidates)
      /\ DOMAIN told = DOMAIN candidates
  BY <1>4, <1>6, IsASeq, LenProperties
<1>8. AllFit(cfg, b, q, told) /\ \A c \in Elements(told) : c.source = peer.id
  BY <1>3, <1>4, <1>5, <1>7 DEF AllFit, Elements
<1>9. ASSUME Complete(peer.id, q, candidates) PROVE CompleteFrom(peer.id, q, told)
  <2>1. ASSUME NEW c \in Elements(candidates)
        PROVE  \E d \in Elements(told) : d.id = c.id /\ d.source = peer.id
    <3>1. PICK i \in DOMAIN candidates : c = candidates[i]
      BY DEF Elements
    <3>2. told[i] \in Elements(told) /\ told[i].id = c.id /\ told[i].source = peer.id
      BY <1>3, <1>4, <1>5, <1>7, <3>1 DEF Elements
    <3>3. QED
      BY <3>2
  <2>2. QED
    BY <1>9, <2>1 DEF Complete, CompleteFrom
<1>10. QED
  BY <1>7, <1>8, <1>9 DEF told

--------------------------------------------------------------------------------
(* What is known of a job, of an answer on its way, and of an answer given. *)

\* Peer p needs no more asking: it failed, or there is enough, or all it has is here.
Settled(j, p) ==
  \/ p \in j.failed
  \/ Len(j.remotes) >= j.query.maxResults
  \/ CompleteFrom(p, j.query, j.remotes)

JobSound(cfg, b, j) ==
  /\ j.query \in Requests
  /\ j.locals = LocalCandidates(b, cfg[b], Found[b][j.query])
  /\ AllFit(cfg, b, j.query, j.remotes)
  /\ \A c \in Elements(j.remotes) : c.source \in Brokers
  /\ Elements(j.remaining) \subseteq Elements(ToAsk(cfg[b], j.query))
  /\ \A peer \in Elements(ToAsk(cfg[b], j.query)) :
       peer \in Elements(j.remaining) \/ (peer.id \in j.queried /\ Settled(j, peer.id))
  /\ \A p \in j.queried : \E peer \in Elements(ToAsk(cfg[b], j.query)) : peer.id = p
  /\ j.asking => j.remaining # <<>> /\ Head(j.remaining).id \in j.queried
  /\ j.unreadable => \E p \in Foreign : PeerIn(cfg, b, p)

\* p's answer to q: nothing unfit is in it, and all p has of its own unless it is long.
ReplySound(cfg, p, q, response) ==
  /\ AllFit(cfg, p, q, response.candidates)
  /\ response.ok => \/ Len(response.candidates) >= q.maxResults
                    \/ Complete(p, q, response.candidates)

\* Nothing but its own strictness or a peer it cannot read makes b fail.
Soft(cfg, b) == ~cfg[b].strict /\ \A p \in Foreign : ~PeerIn(cfg, b, p)

OwnFirst(cfg, b, q, candidates) ==
  IsPrefix(FirstOf(LocalCandidates(b, cfg[b], Found[b][q]), q.maxResults), candidates)

AnswerSound(cfg, a) ==
  /\ a.query \in Requests
  /\ AllFit(cfg, a.broker, a.query, a.candidates)
  /\ a.ok => \A p \in Brokers : PeerIn(cfg, a.broker, p) =>
       /\ a.query.includeRemote /\ cfg[a.broker].httpx => p \in a.queried
       /\ p \in a.queried \ a.failed /\ Len(a.candidates) < a.query.maxResults =>
            CompleteFrom(p, a.query, a.candidates)
  /\ Soft(cfg, a.broker) =>
       /\ a.ok
       /\ cfg[a.broker].preferLocal => OwnFirst(cfg, a.broker, a.query, a.candidates)

\* What a job that ends with this response leaves to a client.
AnswerOf(b, j, response) ==
  [broker |-> b, query |-> j.query, ok |-> response.ok,
   candidates |-> response.candidates, queried |-> j.queried, failed |-> j.failed]

ResponseSound(cfg, b, j, response) ==
  /\ response \in Response
  /\ ReplySound(cfg, b, j.query, response)
  /\ AnswerSound(cfg, AnswerOf(b, j, response))

LEMMA JobFields ==
  ASSUME NEW j \in Job
  PROVE  /\ j.from \in Senders /\ j.query \in DiscoveryRequest
         /\ j.locals \in Seq(DiscoveryCandidate) /\ j.remotes \in Seq(DiscoveryCandidate)
         /\ j.remaining \in Seq(FederatedPeer) /\ j.asking \in BOOLEAN
         /\ j.failed \in SUBSET Brokers /\ j.unreadable \in BOOLEAN
         /\ j.queried \in SUBSET Brokers
BY DEF Job

LEMMA CfgFields ==
  ASSUME NEW cfg \in Federations, NEW b \in Brokers
  PROVE  /\ cfg[b] \in FederationConfig /\ cfg[b].enabled \in BOOLEAN
         /\ cfg[b].strict \in BOOLEAN /\ cfg[b].preferLocal \in BOOLEAN
         /\ cfg[b].peers \in Seq(FederatedPeer)
<1>1. cfg[b] \in FederationConfig
  BY FederationAssumption
<1>2. QED
  BY <1>1 DEF FederationConfig

LEMMA RequestFields ==
  ASSUME NEW q \in Requests
  PROVE  q \in DiscoveryRequest /\ q.maxResults \in 1..100 /\ q.includeRemote \in BOOLEAN
<1>1. q \in DiscoveryRequest
  BY FederationAssumption
<1>2. QED
  BY <1>1 DEF DiscoveryRequest

\* An error tells nothing; only a strict broker, or one that cannot read a peer, answers it.
LEMMA ErrorSound ==
  ASSUME NEW cfg \in Federations, NEW b \in Brokers, NEW j \in Job, j.query \in Requests,
         ~Soft(cfg, b)
  PROVE  ResponseSound(cfg, b, j, Error)
<1>1. Error \in Response /\ ~Error.ok /\ Error.candidates = <<>>
  BY DEF Error, Response
<1>2. Elements(<<>>) = {}
  BY DEF Elements
<1>3. \A q : AllFit(cfg, b, q, Error.candidates)
  BY <1>1, <1>2 DEF AllFit
<1> DEFINE a == AnswerOf(b, j, Error)
<1>4. /\ a.broker = b /\ a.query = j.query /\ a.candidates = Error.candidates
      /\ a.ok <=> Error.ok
  BY DEF AnswerOf
<1> HIDE DEF a
<1>5. AnswerSound(cfg, a)
  BY <1>1, <1>3, <1>4 DEF AnswerSound
<1>6. QED
  BY <1>1, <1>3, <1>5 DEF ResponseSound, ReplySound, a

\* The aggregated answer.
LEMMA FinishSound ==
  ASSUME NEW cfg \in Federations, NEW b \in Brokers, NEW j \in Job,
         JobSound(cfg, b, j), j.remaining = <<>>
  PROVE  ResponseSound(cfg, b, j,
           IF j.unreadable THEN Error
           ELSE [ok |-> TRUE,
                 candidates |-> FirstOf(Aggregate(cfg[b], j.locals, j.remotes),
                                        j.query.maxResults)])
<1>1. CASE j.unreadable
  BY <1>1, ErrorSound DEF JobSound, Soft
<1>2. CASE ~j.unreadable
  <2> DEFINE n == j.query.maxResults
             q == j.query
             all == Aggregate(cfg[b], j.locals, j.remotes)
             cut == FirstOf(all, n)
             response == [ok |-> TRUE, candidates |-> cut]
             a == AnswerOf(b, j, response)
  <2>1. /\ j.locals \in Seq(DiscoveryCandidate) /\ j.remotes \in Seq(DiscoveryCandidate)
        /\ cfg[b] \in FederationConfig /\ q \in Requests /\ n \in Nat
    <3>1. q \in Requests
      BY DEF JobSound
    <3>2. n \in 1..100
      BY <3>1, RequestFields
    <3>3. j.locals \in Seq(DiscoveryCandidate) /\ j.remotes \in Seq(DiscoveryCandidate)
      BY JobFields
    <3>4. cfg[b] \in FederationConfig
      BY CfgFields
    <3> HIDE DEF n
    <3>5. n \in Nat
      BY <3>2
    <3>6. QED
      BY <3>1, <3>3, <3>4, <3>5
  <2>2. /\ j.locals = LocalCandidates(b, cfg[b], Found[b][q])
        /\ AllFit(cfg, b, q, j.remotes)
        /\ \A c \in Elements(j.remotes) : c.source \in Brokers
        /\ \A peer \in Elements(ToAsk(cfg[b], q)) :
             peer \in Elements(j.remaining) \/ (peer.id \in j.queried /\ Settled(j, peer.id))
        /\ \A p \in j.queried : \E peer \in Elements(ToAsk(cfg[b], q)) : peer.id = p
    BY DEF JobSound
  <2>3. AllFit(cfg, b, q, j.locals) /\ Complete(b, q, j.locals)
    BY <2>1, <2>2, LocalsFit
  <2>4. /\ all \in Seq(DiscoveryCandidate)
        /\ Len(all) = Len(j.locals) + Len(j.remotes)
        /\ Elements(all) = Elements(j.locals) \cup Elements(j.remotes)
        /\ cfg[b].preferLocal => \A i \in 1..Len(j.locals) : all[i] = j.locals[i]
    BY <2>1, <2>2, AggregateWhole
  <2> HIDE DEF all
  <2>5. /\ cut \in Seq(DiscoveryCandidate)
        /\ Len(cut) = IF n < Len(all) THEN n ELSE Len(all)
        /\ \A i \in 1..Len(cut) : cut[i] = all[i]
        /\ Elements(cut) \subseteq Elements(all)
    BY <2>1, <2>4, FirstOfType
  <2> HIDE DEF cut, n
  <2>6. AllFit(cfg, b, q, cut)
    BY <2>2, <2>3, <2>4, <2>5 DEF AllFit
  <2>7. /\ Len(j.locals) \in Nat /\ Len(j.remotes) \in Nat /\ Len(all) \in Nat /\ Len(cut) \in Nat
        /\ Len(all) >= Len(j.locals) /\ Len(all) >= Len(j.remotes)
    <3>1. \A s \in Seq(DiscoveryCandidate) : Len(s) \in Nat
      OBVIOUS
    <3>2. /\ Len(j.locals) \in Nat /\ Len(j.remotes) \in Nat
          /\ Len(all) \in Nat /\ Len(cut) \in Nat
      BY <2>1, <2>4, <2>5, <3>1
    <3>3. \A x, y \in Nat : x + y >= x /\ x + y >= y
      OBVIOUS
    <3>4. Len(all) = Len(j.locals) + Len(j.remotes)
      BY <2>4
    <3>5. QED
      BY <3>2, <3>3, <3>4
  <2>8. ASSUME Len(cut) < n
        PROVE  /\ Elements(cut) = Elements(j.locals) \cup Elements(j.remotes)
               /\ Len(j.remotes) < n
    <3>1. Len(cut) = Len(all)
      BY <2>1, <2>5, <2>7, <2>8
    <3>2. \A i \in 1..Len(all) : cut[i] = all[i]
      BY <2>5, <3>1
    <3>3. DOMAIN cut = 1..Len(all) /\ DOMAIN all = 1..Len(all)
      BY <2>4, <2>5, <3>1
    <3>4. Elements(cut) = Elements(all)
      BY <3>2, <3>3 DEF Elements
    <3>5. Len(j.remotes) < n
      BY <2>1, <2>7, <2>8, <3>1
    <3>6. QED
      BY <2>4, <3>4, <3>5
  <2>9. Len(cut) >= n \/ Complete(b, q, cut)
    <3>1. CASE Len(cut) < n
      BY <2>3, <2>8, <3>1 DEF Complete
    <3>2. QED
      BY <2>1, <2>7, <3>1
  <2>0. Elements(j.remaining) = {}
    BY DEF Elements
  <2>a. ASSUME q.includeRemote, cfg[b].httpx, NEW p \in Brokers, PeerIn(cfg, b, p)
        PROVE  p \in j.queried
    <3>1. PICK i \in DOMAIN cfg[b].peers : cfg[b].enabled /\ cfg[b].peers[i].id = p
      BY <2>a DEF PeerIn
    <3>2. cfg[b].peers[i] \in Elements(ToAsk(cfg[b], q))
      BY <2>a, <3>1 DEF ToAsk, Elements
    <3>3. QED
      BY <2>0, <2>2, <3>1, <3>2
  <2>10. ASSUME NEW p \in j.queried \ j.failed, Len(cut) < n PROVE CompleteFrom(p, q, cut)
    <3>4. Settled(j, p)
      BY <2>0, <2>2, <2>10
    <3>5. CompleteFrom(p, q, j.remotes)
      BY <2>1, <2>7, <2>8, <2>10, <3>4 DEF Settled, n
    <3>6. QED
      BY <2>8, <2>10, <3>5 DEF CompleteFrom
  <2>11. cfg[b].preferLocal => OwnFirst(cfg, b, q, cut)
    <3> SUFFICES ASSUME cfg[b].preferLocal PROVE OwnFirst(cfg, b, q, cut)
      OBVIOUS
    <3> DEFINE own == FirstOf(j.locals, n)
    <3>1. /\ own \in Seq(DiscoveryCandidate)
          /\ Len(own) = IF n < Len(j.locals) THEN n ELSE Len(j.locals)
          /\ \A i \in 1..Len(own) : own[i] = j.locals[i]
      BY <2>1, FirstOfType
    <3> HIDE DEF own
    <3>2. /\ Len(own) \in Nat /\ Len(own) <= Len(cut) /\ Len(own) <= Len(j.locals)
          /\ \A i \in 1..Len(own) : i \in 1..Len(cut) /\ i \in 1..Len(j.locals)
      <4>1. Len(own) \in Nat
        BY <3>1, LenProperties
      <4>2. Len(own) <= Len(cut) /\ Len(own) <= Len(j.locals)
        BY <2>1, <2>5, <2>7, <3>1, <4>1
      <4>3. QED
        BY <2>7, <4>1, <4>2
    <3>3. \A i \in 1..Len(own) : own[i] = cut[i]
      BY <2>4, <2>5, <3>1, <3>2
    <3>4. \A i \in 1..Len(own) : own[i] \in DiscoveryCandidate /\ cut[i] \in DiscoveryCandidate
      BY <2>5, <3>1, <3>2
    <3>5. /\ SubSeq(own, 1, Len(own)) \in Seq(DiscoveryCandidate)
          /\ Len(SubSeq(own, 1, Len(own))) = IF 1 <= Len(own) THEN Len(own) - 1 + 1 ELSE 0
          /\ \A i \in 1..(Len(own) - 1 + 1) : SubSeq(own, 1, Len(own))[i] = own[1 + i - 1]
      BY <3>2, <3>4, SubSeqProperties
    <3>6. /\ SubSeq(cut, 1, Len(own)) \in Seq(DiscoveryCandidate)
          /\ Len(SubSeq(cut, 1, Len(own))) = IF 1 <= Len(own) THEN Len(own) - 1 + 1 ELSE 0
          /\ \A i \in 1..(Len(own) - 1 + 1) : SubSeq(cut, 1, Len(own))[i] = cut[1 + i - 1]
      BY <3>2, <3>4, SubSeqProperties
    <3>7. /\ Len(own) - 1 + 1 = Len(own)
          /\ (IF 1 <= Len(own) THEN Len(own) - 1 + 1 ELSE 0) = Len(own)
          /\ \A i \in 1..Len(own) : 1 + i - 1 = i
      BY <3>2
    <3> DEFINE s == SubSeq(own, 1, Len(own))
               t == SubSeq(cut, 1, Len(own))
    <3>8. /\ s \in Seq(DiscoveryCandidate) /\ t \in Seq(DiscoveryCandidate)
          /\ Len(s) = Len(own) /\ Len(t) = Len(own)
          /\ \A i \in 1..Len(own) : s[i] = own[i] /\ t[i] = cut[i]
      BY <3>5, <3>6, <3>7
    <3> HIDE DEF s, t
    <3>9. s = t
      BY <3>3, <3>8, SeqEqual
    <3>10. OwnFirst(cfg, b, q, cut) <=> IsPrefix(own, cut)
      BY <2>2 DEF OwnFirst, own, n
    <3>11. QED
      BY <3>2, <3>9, <3>10 DEF IsPrefix, s, t
  <2>12. /\ a.broker = b /\ a.query = q /\ a.candidates = cut /\ a.ok /\ a.failed = j.failed
         /\ a.queried = j.queried
         /\ response.candidates = cut
    BY DEF AnswerOf
  <2>13. response \in Response
    BY <2>5 DEF Response
  <2>14. ReplySound(cfg, b, q, response)
    BY <2>6, <2>9, <2>12 DEF ReplySound, n
  <2> HIDE DEF a
  <2>15. AnswerSound(cfg, a)
    <3>1. \A p \in Brokers : PeerIn(cfg, a.broker, p) =>
            /\ a.query.includeRemote /\ cfg[a.broker].httpx => p \in a.queried
            /\ p \in a.queried \ a.failed /\ Len(a.candidates) < a.query.maxResults =>
                 CompleteFrom(p, a.query, a.candidates)
      BY <2>a, <2>10, <2>12 DEF n
    <3>2. QED
      BY <2>1, <2>6, <2>11, <2>12, <3>1 DEF AnswerSound, n
  <2>16. ResponseSound(cfg, b, j, response)
    BY <2>13, <2>14, <2>15 DEF ResponseSound, a
  <2>17. QED
    BY <1>2, <2>16 DEF cut, n, all
<1>3. QED
  BY <1>1, <1>2

--------------------------------------------------------------------------------
(* How a job goes on.                                                       *)

\* A job begins with its broker's own candidates and all peers to ask.
LEMMA StartSound ==
  ASSUME NEW cfg \in Federations, NEW b \in Brokers, NEW call \in Call, call.query \in Requests
  PROVE  LET j == [ from |-> call.from, query |-> call.query,
                    locals |-> LocalCandidates(b, cfg[b], Found[b][call.query]),
                    remaining |-> ToAsk(cfg[b], call.query), asking |-> FALSE,
                    remotes |-> <<>>, queried |-> {}, failed |-> {}, unreadable |-> FALSE ]
         IN  j \in Job /\ JobSound(cfg, b, j) /\ ~j.asking
<1> DEFINE q == call.query
           locals == LocalCandidates(b, cfg[b], Found[b][q])
           remaining == ToAsk(cfg[b], q)
           j == [ from |-> call.from, query |-> q, locals |-> locals, remaining |-> remaining,
                  asking |-> FALSE, remotes |-> <<>>, queried |-> {}, failed |-> {},
                  unreadable |-> FALSE ]
<1>1. call.from \in Senders /\ q \in DiscoveryRequest /\ q \in Requests
  BY DEF Call
<1>2. locals \in Seq(DiscoveryCandidate)
  BY LocalsFit
<1>3. remaining \in Seq(FederatedPeer)
  <2>1. cfg[b].peers \in Seq(FederatedPeer)
    BY CfgFields
  <2>2. <<>> \in Seq(FederatedPeer)
    OBVIOUS
  <2>3. QED
    BY <2>1, <2>2 DEF ToAsk
<1>4. <<>> \in Seq(DiscoveryCandidate) /\ {} \in SUBSET Brokers /\ Elements(<<>>) = {}
  BY DEF Elements
<1>a. j.locals = LocalCandidates(b, cfg[b], Found[b][j.query])
  OBVIOUS
<1> HIDE DEF q, locals, remaining
<1>5. j \in Job
  BY <1>1, <1>2, <1>3, <1>4 DEF Job
<1>6. /\ j.query = q /\ j.remaining = remaining /\ j.remotes = <<>> /\ j.queried = {}
      /\ ~j.asking /\ ~j.unreadable
  OBVIOUS
<1>7. JobSound(cfg, b, j)
  <2> HIDE DEF j
  <2>1. AllFit(cfg, b, q, <<>>)
    BY <1>4 DEF AllFit
  <2>2. QED
    BY <1>1, <1>4, <1>6, <1>a, <2>1 DEF JobSound, remaining
<1>8. QED
  BY <1>5, <1>6, <1>7 DEF q, locals, remaining

\* The next peer is asked, or the sender goes away.
LEMMA GoesOnSound ==
  ASSUME NEW cfg \in Federations, NEW b \in Brokers, NEW j \in Job, JobSound(cfg, b, j)
  PROVE  /\ [j EXCEPT !.from = Gone] \in Job
         /\ JobSound(cfg, b, [j EXCEPT !.from = Gone])
         /\ j.remaining # <<>> =>
              LET to == Head(j.remaining).id
                  l  == [j EXCEPT !.asking = TRUE, !.queried = @ \cup {to}]
              IN  l \in Job /\ JobSound(cfg, b, l)
<1>1. Gone \in Senders
  BY DEF Senders
<1> DEFINE k == [j EXCEPT !.from = Gone]
           to == Head(j.remaining).id
           l == [j EXCEPT !.asking = TRUE, !.queried = @ \cup {to}]
<1>2. k \in Job
  BY <1>1 DEF Job
<1>3. /\ k.query = j.query /\ k.locals = j.locals /\ k.remotes = j.remotes
      /\ k.remaining = j.remaining /\ k.asking = j.asking /\ k.unreadable = j.unreadable
      /\ k.failed = j.failed /\ k.queried = j.queried
  BY DEF Job
<1>4. /\ l.query = j.query /\ l.locals = j.locals /\ l.remotes = j.remotes
      /\ l.remaining = j.remaining /\ l.unreadable = j.unreadable
      /\ l.failed = j.failed /\ l.queried = j.queried \cup {to}
  BY DEF Job
<1>b. ASSUME j.remaining # <<>>
      PROVE  /\ Head(j.remaining) \in FederatedPeer /\ to \in Brokers
             /\ Head(j.remaining) \in Elements(ToAsk(cfg[b], j.query))
  <2> DEFINE s == j.remaining
  <2>1. s \in Seq(FederatedPeer) /\ s # <<>> /\ Elements(s) \subseteq Elements(ToAsk(cfg[b], j.query))
    BY <1>b, JobFields DEF JobSound
  <2> HIDE DEF s
  <2>2. Head(s) \in FederatedPeer /\ 1 \in DOMAIN s /\ Head(s) = s[1]
    BY <2>1
  <2>3. Head(s) \in Elements(s)
    BY <2>2 DEF Elements
  <2>4. Head(s).id \in Brokers
    BY <2>2 DEF FederatedPeer
  <2>5. QED
    BY <2>1, <2>2, <2>3, <2>4 DEF s
<1>c. j.remaining # <<>> => l \in Job
  BY <1>b DEF Job
<1> HIDE DEF k, l
<1>5. JobSound(cfg, b, k)
  BY <1>3 DEF JobSound, Settled
<1>6. j.remaining # <<>> => JobSound(cfg, b, l)
  <2> HIDE DEF to
  <2>1. j.remaining # <<>> =>
          \A p \in l.queried : \E peer \in Elements(ToAsk(cfg[b], l.query)) : peer.id = p
    BY <1>4, <1>b DEF JobSound, to
  <2>2. \A p : Settled(l, p) <=> Settled(j, p)
    BY <1>4 DEF Settled
  <2>3. QED
    BY <1>4, <2>1, <2>2 DEF JobSound, to
<1>7. QED
  BY <1>2, <1>5, <1>6, <1>c DEF k, l, to

\* The request to a peer is over: what is known of it is enough for the peer not to be
\* missing from the answer silently.
LEMMA PeerSettled ==
  ASSUME NEW cfg \in Federations, NEW b \in Brokers, NEW j \in Job,
         JobSound(cfg, b, j), j.asking,
         NEW candidates \in Seq(DiscoveryCandidate),
         NEW ok \in BOOLEAN, NEW readable \in BOOLEAN,
         AllFit(cfg, Head(j.remaining).id, j.query, candidates),
         ok => \/ Len(candidates) >= j.query.maxResults
               \/ Complete(Head(j.remaining).id, j.query, candidates),
         ~readable => Head(j.remaining).id \in Foreign
  PROVE  LET k == PastPeer(j, candidates, ok, readable)
         IN  /\ k \in Job /\ JobSound(cfg, b, k)
             /\ k.from = j.from /\ k.query = j.query
<1> DEFINE q == j.query
           peer == Head(j.remaining)
           told == FromPeer(peer, candidates)
           rest == Tail(j.remaining)
           remotes == j.remotes \o told
           failed == IF ok THEN j.failed ELSE j.failed \cup {peer.id}
           k == PastPeer(j, candidates, ok, readable)
<1>1. /\ j.remaining \in Seq(FederatedPeer) /\ j.remotes \in Seq(DiscoveryCandidate)
      /\ j.failed \in SUBSET Brokers /\ j.unreadable \in BOOLEAN
      /\ j.remaining # <<>> /\ q \in Requests
  <2>1. j.remaining # <<>> /\ q \in Requests
    BY DEF JobSound
  <2>2. QED
    BY <2>1, JobFields
<1>2. /\ peer \in FederatedPeer /\ rest \in Seq(FederatedPeer)
      /\ peer \in Elements(j.remaining)
      /\ Elements(rest) \subseteq Elements(j.remaining)
      /\ Elements(j.remaining) \subseteq {peer} \cup Elements(rest)
  <2> DEFINE s == j.remaining
  <2>0. s \in Seq(FederatedPeer) /\ s # <<>>
    BY <1>1
  <2> HIDE DEF s
  <2>1. /\ Len(s) \in Nat /\ Len(s) # 0 /\ DOMAIN s = 1..Len(s) /\ Head(s) = s[1]
        /\ Head(s) \in FederatedPeer
    BY <2>0
  <2>2. /\ Tail(s) \in Seq(FederatedPeer)
        /\ Len(Tail(s)) = Len(s) - 1 /\ \A i \in 1..(Len(s) - 1) : Tail(s)[i] = s[i + 1]
    BY <2>0, HeadTailProperties
  <2>3. DOMAIN Tail(s) = 1..(Len(s) - 1)
    BY <2>2
  <2>4. \A i \in 1..(Len(s) - 1) : i + 1 \in 1..Len(s)
    BY <2>1
  <2>5. \A i \in 1..Len(s) : i = 1 \/ (i - 1 \in 1..(Len(s) - 1) /\ i - 1 + 1 = i)
    BY <2>1
  <2>6. Head(s) \in Elements(s)
    BY <2>1 DEF Elements
  <2>7. Elements(Tail(s)) \subseteq Elements(s)
    BY <2>1, <2>2, <2>3, <2>4 DEF Elements
  <2>8. Elements(s) \subseteq {Head(s)} \cup Elements(Tail(s))
    <3>1. ASSUME NEW i \in 1..Len(s) PROVE s[i] = Head(s) \/ s[i] \in Elements(Tail(s))
      <4>1. CASE i = 1
        BY <2>1, <4>1
      <4>2. CASE i - 1 \in 1..(Len(s) - 1) /\ i - 1 + 1 = i
        <5>1. Tail(s)[i - 1] = s[i]
          BY <2>2, <4>2
        <5>2. i - 1 \in DOMAIN Tail(s)
          BY <2>3, <4>2
        <5>3. QED
          BY <5>1, <5>2 DEF Elements
      <4>3. QED
        BY <2>5, <4>1, <4>2
    <3>2. QED
      BY <2>1, <3>1 DEF Elements
  <2>9. QED
    BY <2>1, <2>2, <2>6, <2>7, <2>8 DEF s
<1>3. /\ AllFit(cfg, b, q, j.remotes)
      /\ \A c \in Elements(j.remotes) : c.source \in Brokers
      /\ Elements(j.remaining) \subseteq Elements(ToAsk(cfg[b], q))
      /\ \A p \in Elements(ToAsk(cfg[b], q)) :
           p \in Elements(j.remaining) \/ (p.id \in j.queried /\ Settled(j, p.id))
      /\ \A p \in j.queried : \E e \in Elements(ToAsk(cfg[b], q)) : e.id = p
      /\ peer.id \in j.queried
      /\ j.unreadable => \E p \in Foreign : PeerIn(cfg, b, p)
      /\ j.locals = LocalCandidates(b, cfg[b], Found[b][q])
  BY DEF JobSound
<1>4. peer.id \in Brokers /\ PeerIn(cfg, b, peer.id)
  <2>1. peer \in Elements(ToAsk(cfg[b], q))
    BY <1>2, <1>3
  <2>2. peer \in Elements(cfg[b].peers) /\ cfg[b].enabled
    <3>1. Elements(<<>>) = {}
      BY DEF Elements
    <3>2. QED
      BY <2>1, <3>1 DEF ToAsk
  <2>3. QED
    BY <1>2, <2>2 DEF PeerIn, Elements, FederatedPeer
<1> HIDE DEF q, peer, rest, told
<1>5. /\ told \in Seq(DiscoveryCandidate)
      /\ Len(told) = Len(candidates)
      /\ AllFit(cfg, b, q, told)
      /\ \A c \in Elements(told) : c.source = peer.id
      /\ Complete(peer.id, q, candidates) => CompleteFrom(peer.id, q, told)
  <2>1. AllFit(cfg, peer.id, q, candidates)
    BY DEF peer, q
  <2>2. QED
    BY <1>1, <1>2, <1>4, <2>1, FromPeerFits DEF told
<1>6. /\ remotes \in Seq(DiscoveryCandidate)
      /\ Len(remotes) = Len(j.remotes) + Len(candidates)
  BY <1>1, <1>5, ConcatProperties
<1>7. Elements(remotes) = Elements(j.remotes) \cup Elements(told)
  BY <1>1, <1>5, ConcatElements
<1> HIDE DEF remotes
<1>8. failed \in SUBSET Brokers
  BY <1>1, <1>4
<1> HIDE DEF failed
<1>9. /\ k.from = j.from /\ k.query = q /\ k.locals = j.locals /\ k.remaining = rest
      /\ k.asking = FALSE /\ k.remotes = remotes /\ k.failed = failed
      /\ k.queried = j.queried
      /\ k.unreadable <=> j.unreadable \/ ~readable
  BY DEF Job, PastPeer, q, peer, rest, told, remotes, failed
<1>10. k \in Job
  BY <1>1, <1>2, <1>6, <1>8 DEF Job, PastPeer, rest, remotes, failed, told, peer
<1> HIDE DEF k
<1>11. Len(j.remotes) \in Nat /\ Len(candidates) \in Nat /\ Len(remotes) \in Nat
       /\ Len(remotes) >= Len(j.remotes) /\ Len(remotes) >= Len(candidates)
  <2>1. \A s \in Seq(DiscoveryCandidate) : Len(s) \in Nat
    OBVIOUS
  <2>2. \A x, y \in Nat : x + y >= x /\ x + y >= y
    OBVIOUS
  <2>3. QED
    BY <1>1, <1>6, <2>1, <2>2
<1>12. q.maxResults \in Nat
  <2>1. q.maxResults \in 1..100
    BY <1>1, RequestFields
  <2>2. \A n \in 1..100 : n \in Nat
    OBVIOUS
  <2>3. QED
    BY <2>1, <2>2
<1>13. AllFit(cfg, b, q, remotes) /\ \A c \in Elements(remotes) : c.source \in Brokers
  BY <1>3, <1>4, <1>5, <1>7 DEF AllFit
<1>14. ASSUME NEW p, Settled(j, p) PROVE Settled(k, p)
  <2>1. CASE p \in j.failed
    BY <1>9, <2>1 DEF Settled, failed
  <2>2. CASE Len(j.remotes) >= j.query.maxResults
    <3>1. Len(remotes) >= q.maxResults
      BY <1>11, <1>12, <2>2 DEF q
    <3>2. QED
      BY <1>9, <3>1 DEF Settled
  <2>3. CASE CompleteFrom(p, j.query, j.remotes)
    <3>1. CompleteFrom(p, q, remotes)
      BY <1>7, <2>3 DEF CompleteFrom, q
    <3>2. QED
      BY <1>9, <3>1 DEF Settled
  <2>4. QED
    BY <1>14, <2>1, <2>2, <2>3 DEF Settled
<1>15. Settled(k, peer.id)
  <2>1. CASE ~ok
    BY <1>9, <2>1 DEF Settled, failed
  <2>2. CASE Len(candidates) >= j.query.maxResults
    <3>1. Len(remotes) >= q.maxResults
      BY <1>11, <1>12, <2>2 DEF q
    <3>2. QED
      BY <1>9, <3>1 DEF Settled
  <2>3. CASE Complete(peer.id, q, candidates)
    <3>1. CompleteFrom(peer.id, q, remotes)
      BY <1>5, <1>7, <2>3 DEF CompleteFrom
    <3>2. QED
      BY <1>9, <3>1 DEF Settled
  <2>4. QED
    BY <2>1, <2>2, <2>3 DEF peer, q
<1>16. ASSUME NEW p \in Elements(ToAsk(cfg[b], q))
       PROVE  p \in Elements(rest) \/ (p.id \in k.queried /\ Settled(k, p.id))
  BY <1>2, <1>3, <1>9, <1>14, <1>15
<1>17. ASSUME k.unreadable PROVE \E p \in Foreign : PeerIn(cfg, b, p)
  <2>1. CASE j.unreadable
    BY <1>3, <2>1
  <2>2. CASE ~readable
    BY <1>4, <2>2 DEF peer
  <2>3. QED
    BY <1>9, <1>17, <2>1, <2>2
<1>18. JobSound(cfg, b, k)
  <2>1. Elements(rest) \subseteq Elements(ToAsk(cfg[b], q))
    BY <1>2, <1>3
  <2>2. QED
    BY <1>1, <1>3, <1>9, <1>13, <1>16, <1>17, <2>1 DEF JobSound
<1>19. QED
  BY <1>9, <1>10, <1>18 DEF k, q

--------------------------------------------------------------------------------
(* The inductive invariant.                                                 *)

\* A broker with this job and this answer waits for p to answer q.
Awaits(j, r, p, q) ==
  /\ j # None /\ j.asking
  /\ Head(j.remaining).id = p
  /\ j.query = q
  /\ r = None

\* What a broker works at for another one is what that other one waits for.
JobsLinked ==
  \A p \in Brokers : job[p] # None /\ job[p].from \in Brokers =>
    /\ job[p].from # p
    /\ Awaits(job[job[p].from], reply[job[p].from], p, job[p].query)

\* So is what it has in its inbox for another one, and it has it once.
CallsLinked ==
  \A p \in Brokers : \A i \in DOMAIN inbox[p] :
    /\ inbox[p][i].query \in Requests
    /\ inbox[p][i].from \in Brokers =>
         /\ Awaits(job[inbox[p][i].from], reply[inbox[p][i].from], p, inbox[p][i].query)
         /\ job[p] # None => job[p].from # inbox[p][i].from
         /\ \A k \in DOMAIN inbox[p] : inbox[p][k].from = inbox[p][i].from => k = i

JobsSound == \A b \in Brokers : job[b] # None => JobSound(config, b, job[b])

RepliesSound ==
  \A b \in Brokers : reply[b] # None =>
    /\ job[b] # None /\ job[b].asking
    /\ ReplySound(config, Head(job[b].remaining).id, job[b].query, reply[b])

AnswersSound == \A i \in DOMAIN answers : AnswerSound(config, answers[i])

FedInv == TypeOK /\ JobsLinked /\ CallsLinked /\ JobsSound /\ RepliesSound /\ AnswersSound

LEMMA FedInit == Init => FedInv
<1> SUFFICES ASSUME Init PROVE FedInv
  OBVIOUS
<1>1. <<>> \in Seq(Call) /\ <<>> \in Seq(Answer) /\ 0 \in 0..MaxRequests
  BY FederationAssumption
<1>2. TypeOK
  BY <1>1 DEF Init, TypeOK
<1>3. JobsLinked /\ JobsSound /\ RepliesSound
  BY DEF Init, JobsLinked, JobsSound, RepliesSound
<1>4. CallsLinked /\ AnswersSound
  BY DEF Init, CallsLinked, AnswersSound
<1>5. QED
  BY <1>2, <1>3, <1>4 DEF FedInv

\* The others' jobs after b has gone away.
LEMMA LeftAloneFacts ==
  ASSUME FedInv, NEW b \in Brokers, NEW p \in Brokers
  PROVE  /\ LeftAlone(b)[p] \in Job \cup {None}
         /\ LeftAlone(b)[p] = None <=> job[p] = None
         /\ job[p] # None =>
              /\ LeftAlone(b)[p] \in Job /\ JobSound(config, p, LeftAlone(b)[p])
              /\ LeftAlone(b)[p].asking = job[p].asking
              /\ LeftAlone(b)[p].remaining = job[p].remaining
              /\ LeftAlone(b)[p].query = job[p].query
              /\ LeftAlone(b)[p].from # b
              /\ LeftAlone(b)[p].from \in Brokers => LeftAlone(b)[p].from = job[p].from
<1>1. job[p] \in Job \cup {None} /\ None \notin Job /\ config \in Federations
  BY FederationAssumption DEF FedInv, TypeOK
<1>2. Gone \notin Brokers
  BY FederationAssumption
<1>3. LeftAlone(b)[p] = IF job[p] # None /\ job[p].from = b
                          THEN [job[p] EXCEPT !.from = Gone] ELSE job[p]
  BY DEF LeftAlone
<1>4. job[p] # None => JobSound(config, p, job[p])
  BY DEF FedInv, JobsSound
<1>5. CASE job[p] # None /\ job[p].from = b
  <2> DEFINE j == job[p]
             k == [j EXCEPT !.from = Gone]
  <2>1. j \in Job /\ JobSound(config, p, j)
    BY <1>1, <1>4, <1>5
  <2> HIDE DEF j
  <2>2. k \in Job /\ JobSound(config, p, k)
    BY <1>1, <2>1, GoesOnSound
  <2>3. k.asking = j.asking /\ k.remaining = j.remaining /\ k.query = j.query /\ k.from = Gone
    BY <2>1 DEF Job
  <2> HIDE DEF k
  <2>4. LeftAlone(b)[p] = k
    BY <1>3, <1>5 DEF k, j
  <2>5. QED
    BY <1>1, <1>2, <1>5, <2>2, <2>3, <2>4 DEF j
<1>6. CASE ~(job[p] # None /\ job[p].from = b)
  BY <1>1, <1>3, <1>4, <1>6
<1>7. QED
  BY <1>5, <1>6

LEMMA ForsakenFacts ==
  ASSUME NEW calls \in Seq(Call), NEW b \in Brokers
  PROVE  /\ Forsaken(calls, b) \in Seq(Call)
         /\ DOMAIN Forsaken(calls, b) = DOMAIN calls
         /\ \A i \in DOMAIN calls :
              /\ Forsaken(calls, b)[i].query = calls[i].query
              /\ Forsaken(calls, b)[i].from # b
              /\ Forsaken(calls, b)[i].from \in Brokers =>
                   Forsaken(calls, b)[i].from = calls[i].from
<1> DEFINE of(c) == IF c.from = b THEN [c EXCEPT !.from = Gone] ELSE c
           new == Forsaken(calls, b)
<1>1. Gone \notin Brokers /\ Gone \in Senders
  BY FederationAssumption DEF Senders
<1>2. ASSUME NEW c \in Call
      PROVE  /\ of(c) \in Call /\ of(c).query = c.query /\ of(c).from # b
             /\ of(c).from \in Brokers => of(c).from = c.from
  BY <1>1 DEF Call
<1>3. new = [i \in DOMAIN calls |-> of(calls[i])]
  BY DEF Forsaken
<1>4. DOMAIN calls = 1..Len(calls) /\ Len(calls) \in Nat /\ \A i \in DOMAIN calls : calls[i] \in Call
  OBVIOUS
<1> HIDE DEF of, new
<1>5. new \in [1..Len(calls) -> Call]
  BY <1>2, <1>3, <1>4
<1>6. new \in Seq(Call) /\ DOMAIN new = DOMAIN calls
  BY <1>4, <1>5
<1>7. \A i \in DOMAIN calls : new[i] = of(calls[i])
  BY <1>3
<1>8. QED
  BY <1>2, <1>4, <1>6, <1>7 DEF new

\* Nobody has anything to do for a broker that does not wait, or has been answered.
LEMMA NothingLeft ==
  ASSUME FedInv, NEW b \in Brokers, ~Waiting(b) \/ reply[b] # None
  PROVE  LeftAlone(b) = job /\ \A p \in Brokers : Forsaken(inbox[p], b) = inbox[p]
<1>1. \A p, q : ~Awaits(job[b], reply[b], p, q)
  BY DEF Awaits, Waiting
<1>2. \A p \in Brokers : ~(job[p] # None /\ job[p].from = b)
  BY <1>1 DEF FedInv, JobsLinked
<1>3. \A p \in Brokers : \A i \in DOMAIN inbox[p] : inbox[p][i].from # b
  BY <1>1 DEF FedInv, CallsLinked
<1>4. job \in [Brokers -> Job \cup {None}] /\ inbox \in [Brokers -> Seq(Call)]
  BY DEF FedInv, TypeOK
<1>5. LeftAlone(b) = job
  <2>1. \A p \in Brokers : LeftAlone(b)[p] = job[p]
    BY <1>2 DEF LeftAlone
  <2>2. LeftAlone(b) = [p \in Brokers |-> LeftAlone(b)[p]] /\ job = [p \in Brokers |-> job[p]]
    BY <1>4 DEF LeftAlone
  <2>3. QED
    BY <2>1, <2>2
<1>6. ASSUME NEW p \in Brokers PROVE Forsaken(inbox[p], b) = inbox[p]
  <2> DEFINE s == inbox[p]
  <2>1. s \in Seq(Call) /\ \A i \in DOMAIN s : s[i].from # b
    BY <1>3, <1>4
  <2> HIDE DEF s
  <2>2. Forsaken(s, b) \in Seq(Call) /\ DOMAIN Forsaken(s, b) = DOMAIN s
    BY <2>1, ForsakenFacts
  <2>3. \A i \in DOMAIN s : Forsaken(s, b)[i] = s[i]
    BY <2>1 DEF Forsaken
  <2>4. Len(Forsaken(s, b)) = Len(s) /\ DOMAIN s = 1..Len(s)
    BY <2>1, <2>2, LenProperties
  <2>5. Forsaken(s, b) = s
    BY <2>1, <2>2, <2>3, <2>4, SeqEqual
  <2>6. QED
    BY <2>5 DEF s
<1>7. QED
  BY <1>5, <1>6

\* What a broker that waits has asked for is with the peer it waits for.
LEMMA OnlyThePeer ==
  ASSUME FedInv, NEW b \in Brokers, Waiting(b), NEW p \in Brokers, p # NextPeer(b).id
  PROVE  Forsaken(inbox[p], b) = inbox[p]
<1> DEFINE s == inbox[p]
<1>1. \A i \in DOMAIN s : s[i].from # b
  BY DEF FedInv, CallsLinked, Awaits, NextPeer
<1>2. s \in Seq(Call)
  BY DEF FedInv, TypeOK
<1> HIDE DEF s
<1>3. Forsaken(s, b) \in Seq(Call) /\ DOMAIN Forsaken(s, b) = DOMAIN s
  BY <1>2, ForsakenFacts
<1>4. \A i \in DOMAIN s : Forsaken(s, b)[i] = s[i]
  BY <1>1 DEF Forsaken
<1>5. Len(Forsaken(s, b)) = Len(s) /\ DOMAIN s = 1..Len(s)
  BY <1>2, <1>3, LenProperties
<1>6. Forsaken(s, b) = s
  BY <1>2, <1>3, <1>4, <1>5, SeqEqual
<1>7. QED
  BY <1>6 DEF s

--------------------------------------------------------------------------------
(* The steps.                                                               *)

\* b has gone away from its peer, if it was waiting for one.
Forgets(b) ==
  /\ config' = config /\ asked' = asked
  /\ inbox' = [p \in Brokers |-> Forsaken(inbox[p], b)]

LEMMA InboxAfter ==
  ASSUME FedInv, NEW b \in Brokers, Forgets(b), NEW p \in Brokers
  PROVE  /\ inbox'[p] \in Seq(Call)
         /\ DOMAIN inbox'[p] = DOMAIN inbox[p]
         /\ \A i \in DOMAIN inbox[p] :
              /\ inbox'[p][i].query = inbox[p][i].query
              /\ inbox'[p][i].from # b
              /\ inbox'[p][i].from \in Brokers => inbox'[p][i].from = inbox[p][i].from
<1> DEFINE calls == inbox[p]
           left == inbox'[p]
<1>1. calls \in Seq(Call)
  BY DEF FedInv, TypeOK
<1>2. left = Forsaken(calls, b)
  BY DEF Forgets
<1> HIDE DEF calls, left
<1>3. /\ left \in Seq(Call) /\ DOMAIN left = DOMAIN calls
      /\ \A i \in DOMAIN calls :
           /\ left[i].query = calls[i].query
           /\ left[i].from # b
           /\ left[i].from \in Brokers => left[i].from = calls[i].from
  BY <1>1, <1>2, ForsakenFacts
<1>4. QED
  BY <1>3 DEF calls, left

\* b's job ends with a sound response.
LEMMA DeliverStep ==
  ASSUME FedInv, NEW b \in Brokers, job[b] # None, Forgets(b),
         NEW response, ResponseSound(config, b, job[b], response),
         Deliver(b, response, LeftAlone(b))
  PROVE  FedInv'
<1> DEFINE c == job[b].from
           a == AnswerOf(b, job[b], response)
<1>1. /\ config \in Federations /\ job[b] \in Job /\ None \notin Job /\ None \notin Response
      /\ job \in [Brokers -> Job \cup {None}] /\ reply \in [Brokers -> Response \cup {None}]
      /\ answers \in Seq(Answer)
  BY FederationAssumption DEF FedInv, TypeOK
<1>2. response \in Response
  BY DEF ResponseSound
<1>3. c \in Brokers => c # b /\ Awaits(job[c], reply[c], b, job[b].query)
  BY DEF FedInv, JobsLinked
<1>4. job' \in [Brokers -> Job \cup {None}] /\ job'[b] = None
  <2>1. LeftAlone(b) \in [Brokers -> Job \cup {None}]
    <3>1. \A p \in Brokers : LeftAlone(b)[p] \in Job \cup {None}
      BY LeftAloneFacts
    <3>2. LeftAlone(b) = [p \in Brokers |-> LeftAlone(b)[p]]
      BY DEF LeftAlone
    <3>3. QED
      BY <3>1, <3>2
  <2>2. job' = [LeftAlone(b) EXCEPT ![b] = None]
    BY DEF Deliver
  <2>3. QED
    BY <2>1, <2>2
<1>5. \A p \in Brokers : p # b => job'[p] = LeftAlone(b)[p]
  BY DEF Deliver, LeftAlone
<1>6. ASSUME NEW p \in Brokers, p # b
      PROVE  /\ job'[p] = None <=> job[p] = None
             /\ job[p] # None =>
                  /\ JobSound(config, p, job'[p])
                  /\ job'[p].asking = job[p].asking
                  /\ job'[p].remaining = job[p].remaining
                  /\ job'[p].query = job[p].query
                  /\ job'[p].from # b
                  /\ job'[p].from \in Brokers => job'[p].from = job[p].from
  BY <1>5, <1>6, LeftAloneFacts
<1>7. /\ reply' \in [Brokers -> Response \cup {None}]
      /\ reply'[b] = None
      /\ \A p \in Brokers : p # b /\ p # c => reply'[p] = reply[p]
      /\ c \in Brokers => reply'[c] = response
  <2>1. CASE c \in Brokers
    <3>1. reply' = [reply EXCEPT ![b] = None, ![c] = response]
      BY <2>1 DEF Deliver
    <3>2. QED
      BY <1>1, <1>2, <1>3, <2>1, <3>1
  <2>2. CASE c \notin Brokers
    <3>1. reply' = [reply EXCEPT ![b] = None]
      BY <2>2 DEF Deliver
    <3>2. QED
      BY <1>1, <2>2, <3>1
  <2>3. QED
    BY <2>1, <2>2
<1>8. answers' = answers \/ answers' = Append(answers, a)
  BY DEF Deliver, AnswerOf
<1>9. config' = config /\ asked' = asked
  BY DEF Forgets
<1>a. a \in Answer
  <2> DEFINE j == job[b]
  <2>1. j \in Job
    BY <1>1
  <2> HIDE DEF j
  <2>2. j.query \in DiscoveryRequest /\ j.failed \in SUBSET Brokers
        /\ j.queried \in SUBSET Brokers
    BY <2>1, JobFields
  <2>3. response.ok \in BOOLEAN /\ response.candidates \in Seq(DiscoveryCandidate)
    BY <1>2 DEF Response
  <2>4. AnswerOf(b, j, response) \in Answer
    BY <2>2, <2>3 DEF AnswerOf, Answer
  <2>5. QED
    BY <2>4 DEF j
<1> HIDE DEF c, a
<1>10. ASSUME NEW f \in Brokers, NEW p \in Brokers, NEW q, f # b, f # c,
              Awaits(job[f], reply[f], p, q)
       PROVE  Awaits(job'[f], reply'[f], p, q)
  BY <1>6, <1>7, <1>10 DEF Awaits
<1>11. TypeOK'
  <2>1. inbox' \in [Brokers -> Seq(Call)]
    <3>1. \A p \in Brokers : inbox'[p] \in Seq(Call)
      BY InboxAfter
    <3>2. inbox' = [p \in Brokers |-> Forsaken(inbox[p], b)]
      BY DEF Forgets
    <3>3. QED
      BY <3>1, <3>2
  <2>2. answers' \in Seq(Answer)
    BY <1>1, <1>8, <1>a
  <2>3. config' \in Federations /\ asked' \in 0..MaxRequests
    BY <1>9 DEF FedInv, TypeOK
  <2>4. QED
    BY <1>4, <1>7, <2>1, <2>2, <2>3 DEF TypeOK
<1>12. JobsLinked'
  <2> SUFFICES ASSUME NEW p \in Brokers, job'[p] # None, job'[p].from \in Brokers
               PROVE  /\ job'[p].from # p
                      /\ Awaits(job'[job'[p].from], reply'[job'[p].from], p, job'[p].query)
    BY DEF JobsLinked
  <2> DEFINE f == job'[p].from
  <2>1. p # b /\ job[p] # None /\ f # b /\ f = job[p].from /\ job'[p].query = job[p].query
    BY <1>4, <1>6
  <2>2. f \in Brokers /\ f # p /\ Awaits(job[f], reply[f], p, job[p].query)
    BY <2>1 DEF FedInv, JobsLinked
  <2> HIDE DEF f
  <2>3. f # c
    BY <1>3, <2>1, <2>2 DEF Awaits, c
  <2>4. Awaits(job'[f], reply'[f], p, job[p].query)
    BY <1>10, <2>1, <2>2, <2>3
  <2>5. QED
    BY <2>1, <2>2, <2>4 DEF f
<1>13. CallsLinked'
  <2> SUFFICES ASSUME NEW p \in Brokers, NEW i \in DOMAIN inbox'[p]
               PROVE  /\ inbox'[p][i].query \in Requests
                      /\ inbox'[p][i].from \in Brokers =>
                           /\ Awaits(job'[inbox'[p][i].from], reply'[inbox'[p][i].from],
                                     p, inbox'[p][i].query)
                           /\ job'[p] # None => job'[p].from # inbox'[p][i].from
                           /\ \A k \in DOMAIN inbox'[p] :
                                inbox'[p][k].from = inbox'[p][i].from => k = i
    BY DEF CallsLinked
  <2>1. /\ DOMAIN inbox'[p] = DOMAIN inbox[p]
        /\ \A k \in DOMAIN inbox[p] :
             /\ inbox'[p][k].query = inbox[p][k].query
             /\ inbox'[p][k].from # b
             /\ inbox'[p][k].from \in Brokers => inbox'[p][k].from = inbox[p][k].from
    BY InboxAfter
  <2>2. inbox'[p][i].query \in Requests
    BY <2>1 DEF FedInv, CallsLinked
  <2> SUFFICES ASSUME inbox'[p][i].from \in Brokers
               PROVE  /\ Awaits(job'[inbox'[p][i].from], reply'[inbox'[p][i].from],
                                p, inbox'[p][i].query)
                      /\ job'[p] # None => job'[p].from # inbox'[p][i].from
                      /\ \A k \in DOMAIN inbox'[p] :
                           inbox'[p][k].from = inbox'[p][i].from => k = i
    BY <2>2
  <2> DEFINE f == inbox'[p][i].from
  <2>3. f = inbox[p][i].from /\ f # b /\ f \in Brokers /\ i \in DOMAIN inbox[p]
    BY <2>1
  <2>4. /\ Awaits(job[f], reply[f], p, inbox[p][i].query)
        /\ job[p] # None => job[p].from # f
        /\ \A k \in DOMAIN inbox[p] : inbox[p][k].from = f => k = i
    BY <2>3 DEF FedInv, CallsLinked
  <2>5. inbox'[p][i].query = inbox[p][i].query
    BY <2>1, <2>3
  <2>6. \A k \in DOMAIN inbox'[p] : inbox'[p][k].from = f => k = i
    BY <2>1, <2>3, <2>4
  <2> HIDE DEF f
  <2>7. f # c
    <3>1. f = c => p = b
      BY <1>3, <2>3, <2>4 DEF Awaits
    <3>2. QED
      BY <2>4, <3>1 DEF c
  <2>8. Awaits(job'[f], reply'[f], p, inbox[p][i].query)
    BY <1>10, <2>3, <2>4, <2>7
  <2>9. job'[p] # None => job'[p].from # f
    BY <1>4, <1>6, <2>3, <2>4
  <2>10. QED
    BY <2>5, <2>6, <2>8, <2>9 DEF f
<1>14. JobsSound'
  <2>1. ASSUME NEW p \in Brokers, job'[p] # None PROVE JobSound(config', p, job'[p])
    BY <1>4, <1>6, <1>9, <2>1
  <2>2. QED
    BY <2>1 DEF JobsSound
<1>15. RepliesSound'
  <2> SUFFICES ASSUME NEW p \in Brokers, reply'[p] # None
               PROVE  /\ job'[p] # None /\ job'[p].asking
                      /\ ReplySound(config', Head(job'[p].remaining).id,
                                    job'[p].query, reply'[p])
    BY DEF RepliesSound
  <2>1. p # b
    BY <1>7
  <2>2. CASE p = c
    <3>1. Awaits(job[p], reply[p], b, job[b].query)
      BY <1>3, <2>2
    <3>2. /\ job[p] # None /\ job[p].asking /\ Head(job[p].remaining).id = b
          /\ job[p].query = job[b].query
      BY <3>1 DEF Awaits
    <3>3. ReplySound(config, b, job[b].query, response)
      BY DEF ResponseSound
    <3>4. QED
      BY <1>6, <1>7, <1>9, <2>1, <2>2, <3>2, <3>3
  <2>3. CASE p # c
    <3>1. reply'[p] = reply[p]
      BY <1>7, <2>1, <2>3
    <3>2. /\ job[p] # None /\ job[p].asking
          /\ ReplySound(config, Head(job[p].remaining).id, job[p].query, reply[p])
      BY <3>1 DEF FedInv, RepliesSound
    <3>3. QED
      BY <1>6, <1>9, <2>1, <3>1, <3>2
  <2>4. QED
    BY <2>2, <2>3
<1>16. AnswersSound'
  <2>1. AnswerSound(config, a)
    BY DEF ResponseSound, a
  <2>2. \A i \in DOMAIN answers : AnswerSound(config, answers[i])
    BY DEF FedInv, AnswersSound
  <2>3. ASSUME answers' = Append(answers, a), NEW i \in DOMAIN answers'
        PROVE  AnswerSound(config, answers'[i])
    <3>1. /\ DOMAIN answers' = 1..(Len(answers) + 1) /\ Len(answers) \in Nat
          /\ DOMAIN answers = 1..Len(answers)
          /\ \A k \in 1..Len(answers) : answers'[k] = answers[k]
          /\ answers'[Len(answers) + 1] = a
      BY <1>1, <1>a, <2>3
    <3>2. i = Len(answers) + 1 \/ i \in 1..Len(answers)
      BY <2>3, <3>1
    <3>3. QED
      BY <2>1, <2>2, <3>1, <3>2
  <2>4. \A i \in DOMAIN answers' : AnswerSound(config, answers'[i])
    BY <1>8, <2>2, <2>3
  <2>5. QED
    BY <1>9, <2>4 DEF AnswersSound
<1>17. QED
  BY <1>11, <1>12, <1>13, <1>14, <1>15, <1>16 DEF FedInv

\* The request to b's next peer is over; b goes on with what it was told.
LEMMA SettleStep ==
  ASSUME FedInv, NEW b \in Brokers, job[b] # None, Forgets(b),
         NEW k \in Job, JobSound(config, b, k), k.from = job[b].from, k.query = job[b].query,
         job' = [LeftAlone(b) EXCEPT ![b] = k],
         reply' = [reply EXCEPT ![b] = None], answers' = answers
  PROVE  FedInv'
<1>1. /\ job \in [Brokers -> Job \cup {None}] /\ reply \in [Brokers -> Response \cup {None}]
      /\ None \notin Job
  BY FederationAssumption DEF FedInv, TypeOK
<1>2. job' \in [Brokers -> Job \cup {None}] /\ job'[b] = k
  <2>1. \A p \in Brokers : LeftAlone(b)[p] \in Job \cup {None}
    BY LeftAloneFacts
  <2>2. LeftAlone(b) = [p \in Brokers |-> LeftAlone(b)[p]]
    BY DEF LeftAlone
  <2>3. QED
    BY <2>1, <2>2
<1>3. \A p \in Brokers : p # b => job'[p] = LeftAlone(b)[p]
  BY DEF LeftAlone
<1>4. ASSUME NEW p \in Brokers, p # b
      PROVE  /\ job'[p] = None <=> job[p] = None
             /\ job[p] # None =>
                  /\ JobSound(config, p, job'[p])
                  /\ job'[p].asking = job[p].asking
                  /\ job'[p].remaining = job[p].remaining
                  /\ job'[p].query = job[p].query
                  /\ job'[p].from # b
                  /\ job'[p].from \in Brokers => job'[p].from = job[p].from
  BY <1>3, <1>4, LeftAloneFacts
<1>5. /\ reply' \in [Brokers -> Response \cup {None}]
      /\ reply'[b] = None
      /\ \A p \in Brokers : p # b => reply'[p] = reply[p]
  BY <1>1
<1>6. config' = config /\ asked' = asked
  BY DEF Forgets
<1>7. ASSUME NEW f \in Brokers, NEW p \in Brokers, NEW q, f # b,
             Awaits(job[f], reply[f], p, q)
      PROVE  Awaits(job'[f], reply'[f], p, q)
  BY <1>4, <1>5, <1>7 DEF Awaits
\* Of each job, b's included, the sender and the query are the ones it had.
<1>8. ASSUME NEW p \in Brokers, job'[p] # None, job'[p].from \in Brokers
      PROVE  /\ job[p] # None /\ job'[p].from = job[p].from /\ job'[p].from # b
             /\ job'[p].query = job[p].query
  <2>1. CASE p = b
    BY <1>2, <1>8, <2>1 DEF FedInv, JobsLinked
  <2>2. CASE p # b
    BY <1>4, <1>8, <2>2
  <2>3. QED
    BY <2>1, <2>2
<1>9. TypeOK'
  <2>1. inbox' \in [Brokers -> Seq(Call)]
    <3>1. \A p \in Brokers : inbox'[p] \in Seq(Call)
      BY InboxAfter
    <3>2. inbox' = [p \in Brokers |-> Forsaken(inbox[p], b)]
      BY DEF Forgets
    <3>3. QED
      BY <3>1, <3>2
  <2>2. answers' \in Seq(Answer) /\ config' \in Federations /\ asked' \in 0..MaxRequests
    BY <1>6 DEF FedInv, TypeOK
  <2>3. QED
    BY <1>2, <1>5, <2>1, <2>2 DEF TypeOK
<1>10. JobsLinked'
  <2> SUFFICES ASSUME NEW p \in Brokers, job'[p] # None, job'[p].from \in Brokers
               PROVE  /\ job'[p].from # p
                      /\ Awaits(job'[job'[p].from], reply'[job'[p].from], p, job'[p].query)
    BY DEF JobsLinked
  <2> DEFINE f == job'[p].from
  <2>1. job[p] # None /\ f # b /\ f = job[p].from /\ job'[p].query = job[p].query
    BY <1>8
  <2>2. f \in Brokers /\ f # p /\ Awaits(job[f], reply[f], p, job[p].query)
    BY <2>1 DEF FedInv, JobsLinked
  <2> HIDE DEF f
  <2>3. Awaits(job'[f], reply'[f], p, job[p].query)
    BY <1>7, <2>1, <2>2
  <2>4. QED
    BY <2>1, <2>2, <2>3 DEF f
<1>11. CallsLinked'
  <2> SUFFICES ASSUME NEW p \in Brokers, NEW i \in DOMAIN inbox'[p]
               PROVE  /\ inbox'[p][i].query \in Requests
                      /\ inbox'[p][i].from \in Brokers =>
                           /\ Awaits(job'[inbox'[p][i].from], reply'[inbox'[p][i].from],
                                     p, inbox'[p][i].query)
                           /\ job'[p] # None => job'[p].from # inbox'[p][i].from
                           /\ \A n \in DOMAIN inbox'[p] :
                                inbox'[p][n].from = inbox'[p][i].from => n = i
    BY DEF CallsLinked
  <2>1. /\ DOMAIN inbox'[p] = DOMAIN inbox[p]
        /\ \A n \in DOMAIN inbox[p] :
             /\ inbox'[p][n].query = inbox[p][n].query
             /\ inbox'[p][n].from # b
             /\ inbox'[p][n].from \in Brokers => inbox'[p][n].from = inbox[p][n].from
    BY InboxAfter
  <2>2. inbox'[p][i].query \in Requests
    BY <2>1 DEF FedInv, CallsLinked
  <2> SUFFICES ASSUME inbox'[p][i].from \in Brokers
               PROVE  /\ Awaits(job'[inbox'[p][i].from], reply'[inbox'[p][i].from],
                                p, inbox'[p][i].query)
                      /\ job'[p] # None => job'[p].from # inbox'[p][i].from
                      /\ \A n \in DOMAIN inbox'[p] :
                           inbox'[p][n].from = inbox'[p][i].from => n = i
    BY <2>2
  <2> DEFINE f == inbox'[p][i].from
  <2>3. f = inbox[p][i].from /\ f # b /\ f \in Brokers /\ i \in DOMAIN inbox[p]
    BY <2>1
  <2>4. /\ Awaits(job[f], reply[f], p, inbox[p][i].query)
        /\ job[p] # None => job[p].from # f
        /\ \A n \in DOMAIN inbox[p] : inbox[p][n].from = f => n = i
    BY <2>3 DEF FedInv, CallsLinked
  <2>5. inbox'[p][i].query = inbox[p][i].query
    BY <2>1, <2>3
  <2>6. \A n \in DOMAIN inbox'[p] : inbox'[p][n].from = f => n = i
    BY <2>1, <2>3, <2>4
  <2> HIDE DEF f
  <2>7. Awaits(job'[f], reply'[f], p, inbox[p][i].query)
    BY <1>7, <2>3, <2>4
  <2>8. job'[p] # None => job'[p].from # f
    BY <1>8, <2>3, <2>4
  <2>9. QED
    BY <2>5, <2>6, <2>7, <2>8 DEF f
<1>12. JobsSound'
  <2>1. ASSUME NEW p \in Brokers, job'[p] # None PROVE JobSound(config', p, job'[p])
    <3>1. CASE p = b
      BY <1>2, <1>6, <3>1
    <3>2. CASE p # b
      BY <1>4, <1>6, <2>1, <3>2
    <3>3. QED
      BY <3>1, <3>2
  <2>2. QED
    BY <2>1 DEF JobsSound
<1>13. RepliesSound'
  <2> SUFFICES ASSUME NEW p \in Brokers, reply'[p] # None
               PROVE  /\ job'[p] # None /\ job'[p].asking
                      /\ ReplySound(config', Head(job'[p].remaining).id,
                                    job'[p].query, reply'[p])
    BY DEF RepliesSound
  <2>1. p # b /\ reply'[p] = reply[p]
    BY <1>5
  <2>2. /\ job[p] # None /\ job[p].asking
        /\ ReplySound(config, Head(job[p].remaining).id, job[p].query, reply[p])
    BY <2>1 DEF FedInv, RepliesSound
  <2>3. QED
    BY <1>4, <1>6, <2>1, <2>2
<1>14. AnswersSound'
  <2>1. \A i \in DOMAIN answers : AnswerSound(config, answers[i])
    BY DEF FedInv, AnswersSound
  <2>2. QED
    BY <1>6, <2>1 DEF AnswersSound
<1>15. QED
  BY <1>9, <1>10, <1>11, <1>12, <1>13, <1>14 DEF FedInv

\* The request to the next peer is over, one way or the other.
LEMMA PeerDoneStep ==
  ASSUME FedInv, NEW b \in Brokers, Waiting(b), Forgets(b),
         NEW candidates \in Seq(DiscoveryCandidate),
         NEW ok \in BOOLEAN, NEW readable \in BOOLEAN,
         AllFit(config, NextPeer(b).id, job[b].query, candidates),
         ok => \/ Len(candidates) >= job[b].query.maxResults
               \/ Complete(NextPeer(b).id, job[b].query, candidates),
         ~readable => NextPeer(b).id \in Foreign,
         PeerDone(b, candidates, ok, readable, LeftAlone(b))
  PROVE  FedInv'
<1>1. /\ config \in Federations /\ job[b] \in Job /\ job[b] # None /\ job[b].asking
      /\ JobSound(config, b, job[b])
  BY DEF FedInv, TypeOK, JobsSound, Waiting
<1>2. CASE ~ok /\ config[b].strict
  <2>1. Deliver(b, Error, LeftAlone(b))
    BY <1>2 DEF PeerDone
  <2>2. job[b].query \in Requests
    BY <1>1 DEF JobSound
  <2>3. ~Soft(config, b)
    BY <1>2 DEF Soft
  <2>4. ResponseSound(config, b, job[b], Error)
    BY <1>1, <2>2, <2>3, ErrorSound
  <2>5. QED
    BY <1>1, <2>1, <2>4, DeliverStep
<1>3. CASE ~(~ok /\ config[b].strict)
  <2> DEFINE k == PastPeer(job[b], candidates, ok, readable)
  <2>1. LeftAlone(b)[b] = job[b]
    <3>1. job[b].from # b
      BY <1>1 DEF FedInv, JobsLinked
    <3>2. QED
      BY <3>1 DEF LeftAlone
  <2>2. /\ job' = [LeftAlone(b) EXCEPT ![b] = k]
        /\ reply' = [reply EXCEPT ![b] = None] /\ answers' = answers
    BY <1>3, <2>1 DEF PeerDone
  <2>3. /\ k \in Job /\ JobSound(config, b, k)
        /\ k.from = job[b].from /\ k.query = job[b].query
    BY <1>1, PeerSettled DEF NextPeer
  <2> HIDE DEF k
  <2>4. QED
    BY <1>1, <2>2, <2>3, SettleStep
<1>4. QED
  BY <1>2, <1>3

LEMMA CollectStep == ASSUME FedInv, NEW b \in Brokers, Collect(b) PROVE FedInv'
<1>1. Waiting(b) /\ reply[b] # None /\ PeerDone(b, reply[b].candidates, reply[b].ok, TRUE, job)
  BY DEF Collect
<1>2. LeftAlone(b) = job /\ \A p \in Brokers : Forsaken(inbox[p], b) = inbox[p]
  BY <1>1, NothingLeft
<1>3. Forgets(b)
  <2>1. inbox = [p \in Brokers |-> inbox[p]]
    BY DEF FedInv, TypeOK
  <2>2. QED
    BY <1>2, <2>1 DEF Collect, Forgets
<1>4. reply[b] \in Response /\ ReplySound(config, NextPeer(b).id, job[b].query, reply[b])
  BY <1>1 DEF FedInv, TypeOK, RepliesSound, NextPeer
<1>5. reply[b].ok \in BOOLEAN /\ reply[b].candidates \in Seq(DiscoveryCandidate)
  BY <1>4 DEF Response
<1>6. QED
  BY <1>1, <1>2, <1>3, <1>4, <1>5, PeerDoneStep DEF ReplySound

LEMMA CollectForeignStep == ASSUME FedInv, NEW b \in Brokers, CollectForeign(b) PROVE FedInv'
<1>1. Waiting(b) /\ reply[b] # None /\ NextPeer(b).id \in Foreign
  BY DEF CollectForeign
<1>2. LeftAlone(b) = job /\ \A p \in Brokers : Forsaken(inbox[p], b) = inbox[p]
  BY <1>1, NothingLeft
<1>3. Forgets(b)
  <2>1. inbox = [p \in Brokers |-> inbox[p]]
    BY DEF FedInv, TypeOK
  <2>2. QED
    BY <1>2, <2>1 DEF CollectForeign, Forgets
<1>4. reply[b] \in Response /\ ReplySound(config, NextPeer(b).id, job[b].query, reply[b])
  BY <1>1 DEF FedInv, TypeOK, RepliesSound, NextPeer
<1> DEFINE s == reply[b].candidates
<1>5. s \in Seq(DiscoveryCandidate) /\ Len(s) \in Nat
  BY <1>4 DEF Response
<1>6. AllFit(config, NextPeer(b).id, job[b].query, s) /\ reply[b].ok
  BY <1>4 DEF ReplySound, CollectForeign
<1>7. ASSUME NEW n \in 0..(Len(s) - 1), PeerDone(b, FirstOf(s, n), FALSE, TRUE, job)
      PROVE  FedInv'
  <2> HIDE DEF s
  <2>1. n \in Nat
    BY <1>5
  <2>2. FirstOf(s, n) \in Seq(DiscoveryCandidate) /\ Elements(FirstOf(s, n)) \subseteq Elements(s)
    BY <1>5, <2>1, FirstOfType
  <2>3. AllFit(config, NextPeer(b).id, job[b].query, FirstOf(s, n))
    BY <1>6, <2>2 DEF AllFit
  <2>4. QED
    BY <1>1, <1>2, <1>3, <1>7, <2>2, <2>3, PeerDoneStep
<1>8. ASSUME PeerDone(b, s, TRUE, FALSE, job) PROVE FedInv'
  <2>1. Len(s) >= job[b].query.maxResults \/ Complete(NextPeer(b).id, job[b].query, s)
    BY <1>4, <1>6 DEF ReplySound
  <2>2. QED
    BY <1>1, <1>2, <1>3, <1>5, <1>6, <1>8, <2>1, PeerDoneStep
<1>9. QED
  BY <1>7, <1>8 DEF CollectForeign

LEMMA GiveUpStep == ASSUME FedInv, NEW b \in Brokers, GiveUp(b) PROVE FedInv'
<1>1. Waiting(b) /\ PeerDone(b, <<>>, FALSE, TRUE, LeftAlone(b))
  BY DEF GiveUp
<1>2. inbox \in [Brokers -> Seq(Call)]
  BY DEF FedInv, TypeOK
<1>3. inbox' = [p \in Brokers |-> Forsaken(inbox[p], b)]
  <2> DEFINE to == NextPeer(b).id
  <2>1. inbox' = [inbox EXCEPT ![to] = Forsaken(@, b)]
    BY DEF GiveUp
  <2>2. \A p \in Brokers : p # to => Forsaken(inbox[p], b) = inbox[p]
    BY <1>1, OnlyThePeer
  <2> HIDE DEF to
  <2>3. \A p \in Brokers : inbox'[p] = Forsaken(inbox[p], b)
    BY <1>2, <2>1, <2>2
  <2>4. inbox' = [p \in Brokers |-> inbox'[p]]
    BY <1>2, <2>1
  <2>5. QED
    BY <2>3, <2>4
<1>4. Forgets(b)
  BY <1>3 DEF Forgets, GiveUp
<1>5. <<>> \in Seq(DiscoveryCandidate) /\ AllFit(config, NextPeer(b).id, job[b].query, <<>>)
  <2>1. Elements(<<>>) = {}
    BY DEF Elements
  <2>2. QED
    BY <2>1 DEF AllFit
<1>6. QED
  BY <1>1, <1>4, <1>5, PeerDoneStep

LEMMA FinishStep == ASSUME FedInv, NEW b \in Brokers, Finish(b) PROVE FedInv'
<1> DEFINE response ==
      IF job[b].unreadable THEN Error
      ELSE [ok |-> TRUE,
            candidates |-> FirstOf(Aggregate(config[b], job[b].locals, job[b].remotes),
                                   job[b].query.maxResults)]
<1>1. /\ job[b] # None /\ job[b].remaining = <<>> /\ Deliver(b, response, job)
  BY DEF Finish
<1>2. config \in Federations /\ job[b] \in Job /\ JobSound(config, b, job[b])
  BY <1>1 DEF FedInv, TypeOK, JobsSound
<1>3. ~Waiting(b)
  BY <1>1, <1>2 DEF Waiting, JobSound
<1>4. LeftAlone(b) = job /\ \A p \in Brokers : Forsaken(inbox[p], b) = inbox[p]
  BY <1>3, NothingLeft
<1>5. Forgets(b)
  <2>1. inbox = [p \in Brokers |-> inbox[p]]
    BY DEF FedInv, TypeOK
  <2>2. QED
    BY <1>4, <2>1 DEF Finish, Forgets
<1>6. ResponseSound(config, b, job[b], response)
  <2> DEFINE j == job[b]
  <2>1. j \in Job /\ JobSound(config, b, j) /\ j.remaining = <<>>
    BY <1>1, <1>2
  <2> HIDE DEF j
  <2>2. ResponseSound(config, b, j,
           IF j.unreadable THEN Error
           ELSE [ok |-> TRUE,
                 candidates |-> FirstOf(Aggregate(config[b], j.locals, j.remotes),
                                        j.query.maxResults)])
    BY <1>2, <2>1, FinishSound
  <2>3. QED
    BY <2>2 DEF j
<1> HIDE DEF response
<1>7. QED
  BY <1>1, <1>4, <1>5, <1>6, DeliverStep

LEMMA SubmitStep ==
  ASSUME FedInv, NEW b \in Brokers, NEW q \in Requests, Submit(b, q) PROVE FedInv'
<1> DEFINE call == [from |-> Client, query |-> q]
<1>1. /\ inbox \in [Brokers -> Seq(Call)] /\ asked \in 0..MaxRequests
      /\ config' = config /\ job' = job /\ reply' = reply /\ answers' = answers
      /\ inbox' = [inbox EXCEPT ![b] = Append(@, call)]
      /\ asked < MaxRequests /\ asked' = asked + 1
  BY DEF FedInv, TypeOK, Submit
<1>2. call \in Call /\ call.from \notin Brokers /\ call.query = q
  BY FederationAssumption DEF Call, Senders
<1> HIDE DEF call
<1>3. inbox' \in [Brokers -> Seq(Call)]
  BY <1>1, <1>2
<1>4. TypeOK'
  <2>1. asked' \in 0..MaxRequests
    BY <1>1, FederationAssumption
  <2>2. QED
    BY <1>1, <1>3, <2>1 DEF FedInv, TypeOK
<1>5. JobsLinked' /\ JobsSound' /\ RepliesSound' /\ AnswersSound'
  BY <1>1 DEF FedInv, JobsLinked, JobsSound, RepliesSound, AnswersSound
<1>6. CallsLinked'
  <2> SUFFICES ASSUME NEW p \in Brokers, NEW i \in DOMAIN inbox'[p]
               PROVE  /\ inbox'[p][i].query \in Requests
                      /\ inbox'[p][i].from \in Brokers =>
                           /\ Awaits(job[inbox'[p][i].from], reply[inbox'[p][i].from],
                                     p, inbox'[p][i].query)
                           /\ job[p] # None => job[p].from # inbox'[p][i].from
                           /\ \A k \in DOMAIN inbox'[p] :
                                inbox'[p][k].from = inbox'[p][i].from => k = i
    BY <1>1 DEF CallsLinked
  <2> DEFINE old == inbox[p]
             new == inbox'[p]
  <2>1. old \in Seq(Call) /\ (new = old \/ new = Append(old, call))
    BY <1>1
  <2>2. \A k \in DOMAIN old :
          /\ old[k].query \in Requests
          /\ old[k].from \in Brokers =>
               /\ Awaits(job[old[k].from], reply[old[k].from], p, old[k].query)
               /\ job[p] # None => job[p].from # old[k].from
               /\ \A n \in DOMAIN old : old[n].from = old[k].from => n = k
    BY DEF FedInv, CallsLinked
  <2> HIDE DEF old, new
  <2>3. CASE new = old
    BY <2>2, <2>3 DEF new
  <2>4. CASE new = Append(old, call)
    <3>1. /\ DOMAIN new = 1..(Len(old) + 1) /\ Len(old) \in Nat
          /\ DOMAIN old = 1..Len(old)
          /\ \A k \in 1..Len(old) : new[k] = old[k]
          /\ new[Len(old) + 1] = call
      BY <1>2, <2>1, <2>4
    <3>2. \A k \in DOMAIN new : k \in DOMAIN old \/ new[k] = call
      BY <3>1
    <3>3. CASE i \in DOMAIN old
      <4>1. new[i] = old[i]
        BY <3>1, <3>3
      <4>2. new[i].from \in Brokers =>
              \A k \in DOMAIN new : new[k].from = new[i].from => k = i
        BY <1>2, <2>2, <3>1, <3>2, <3>3, <4>1
      <4>3. QED
        BY <2>2, <3>3, <4>1, <4>2 DEF new
    <3>4. CASE new[i] = call
      BY <1>2, <3>4 DEF new
    <3>5. QED
      BY <3>2, <3>3, <3>4 DEF new
  <2>5. QED
    BY <2>1, <2>3, <2>4
<1>7. QED
  BY <1>4, <1>5, <1>6 DEF FedInv

\* What is left of an inbox without its first request.
LEMMA InboxTail ==
  ASSUME NEW s \in Seq(Call), s # <<>>
  PROVE  /\ Tail(s) \in Seq(Call) /\ Head(s) \in Call
         /\ 1 \in DOMAIN s /\ Head(s) = s[1]
         /\ \A i \in DOMAIN Tail(s) : i + 1 \in DOMAIN s /\ Tail(s)[i] = s[i + 1]
         /\ \A i, k \in DOMAIN Tail(s) : i + 1 = k + 1 => i = k
         /\ \A i \in DOMAIN Tail(s) : i + 1 # 1
<1>1. /\ Len(s) \in Nat /\ Len(s) # 0 /\ DOMAIN s = 1..Len(s) /\ Head(s) = s[1]
      /\ Head(s) \in Call
  OBVIOUS
<1>2. /\ Tail(s) \in Seq(Call)
      /\ Len(Tail(s)) = Len(s) - 1 /\ \A i \in 1..(Len(s) - 1) : Tail(s)[i] = s[i + 1]
  BY HeadTailProperties
<1>3. DOMAIN Tail(s) = 1..(Len(s) - 1)
  BY <1>2
<1>4. \A i \in 1..(Len(s) - 1) : i + 1 \in 1..Len(s) /\ i + 1 # 1
  BY <1>1
<1>5. \A i, k \in 1..(Len(s) - 1) : i + 1 = k + 1 => i = k
  BY <1>1
<1>6. 1 \in 1..Len(s)
  BY <1>1
<1>7. QED
  BY <1>1, <1>2, <1>3, <1>4, <1>5, <1>6

LEMMA DropStep == ASSUME FedInv, NEW b \in Brokers, Drop(b) PROVE FedInv'
<1>1. /\ inbox \in [Brokers -> Seq(Call)] /\ inbox[b] # <<>>
      /\ config' = config /\ job' = job /\ reply' = reply /\ answers' = answers
      /\ asked' = asked /\ inbox' = [inbox EXCEPT ![b] = Tail(@)]
  BY DEF FedInv, TypeOK, Drop
<1> DEFINE s == inbox[b]
<1>2. /\ Tail(s) \in Seq(Call)
      /\ \A i \in DOMAIN Tail(s) : i + 1 \in DOMAIN s /\ Tail(s)[i] = s[i + 1]
      /\ \A i, k \in DOMAIN Tail(s) : i + 1 = k + 1 => i = k
  <2>1. s \in Seq(Call) /\ s # <<>>
    BY <1>1
  <2> HIDE DEF s
  <2>2. QED
    BY <2>1, InboxTail
<1>3. inbox' \in [Brokers -> Seq(Call)]
  BY <1>1, <1>2
<1>4. TypeOK'
  BY <1>1, <1>3 DEF FedInv, TypeOK
<1>5. JobsLinked' /\ JobsSound' /\ RepliesSound' /\ AnswersSound'
  BY <1>1 DEF FedInv, JobsLinked, JobsSound, RepliesSound, AnswersSound
<1>6. CallsLinked'
  <2>1. ASSUME NEW p \in Brokers, NEW i \in DOMAIN inbox'[p]
        PROVE  /\ inbox'[p][i].query \in Requests
               /\ inbox'[p][i].from \in Brokers =>
                    /\ Awaits(job[inbox'[p][i].from], reply[inbox'[p][i].from],
                              p, inbox'[p][i].query)
                    /\ job[p] # None => job[p].from # inbox'[p][i].from
                    /\ \A k \in DOMAIN inbox'[p] :
                         inbox'[p][k].from = inbox'[p][i].from => k = i
    <3>1. CASE p # b
      <4>1. inbox'[p] = inbox[p]
        BY <1>1, <3>1
      <4>2. QED
        BY <2>1, <4>1 DEF FedInv, CallsLinked
    <3>2. CASE p = b
      <4>1. inbox'[p] = Tail(s)
        BY <1>1, <3>2
      <4>2. \A k \in DOMAIN s :
              /\ s[k].query \in Requests
              /\ s[k].from \in Brokers =>
                   /\ Awaits(job[s[k].from], reply[s[k].from], b, s[k].query)
                   /\ job[b] # None => job[b].from # s[k].from
                   /\ \A n \in DOMAIN s : s[n].from = s[k].from => n = k
        BY DEF FedInv, CallsLinked
      <4> HIDE DEF s
      <4>3. QED
        BY <1>2, <2>1, <3>2, <4>1, <4>2
    <3>3. QED
      BY <3>1, <3>2
  <2>2. QED
    BY <1>1, <2>1 DEF CallsLinked
<1>7. QED
  BY <1>4, <1>5, <1>6 DEF FedInv

LEMMA StartStep == ASSUME FedInv, NEW b \in Brokers, Start(b) PROVE FedInv'
<1> DEFINE s == inbox[b]
           call == Head(s)
           j == [ from |-> call.from, query |-> call.query,
                  locals |-> LocalCandidates(b, config[b], Found[b][call.query]),
                  remaining |-> ToAsk(config[b], call.query), asking |-> FALSE,
                  remotes |-> <<>>, queried |-> {}, failed |-> {}, unreadable |-> FALSE ]
<1>1. /\ inbox \in [Brokers -> Seq(Call)] /\ s # <<>> /\ job[b] = None
      /\ job \in [Brokers -> Job \cup {None}] /\ None \notin Job
      /\ config \in Federations
      /\ config' = config /\ reply' = reply /\ answers' = answers
      /\ asked' = asked /\ inbox' = [inbox EXCEPT ![b] = Tail(@)]
  BY FederationAssumption DEF FedInv, TypeOK, Start
<1>2. job' = [job EXCEPT ![b] = j]
  BY DEF Start
<1>3. /\ Tail(s) \in Seq(Call) /\ call \in Call
      /\ 1 \in DOMAIN s /\ call = s[1]
      /\ \A i \in DOMAIN Tail(s) : i + 1 \in DOMAIN s /\ Tail(s)[i] = s[i + 1]
      /\ \A i, k \in DOMAIN Tail(s) : i + 1 = k + 1 => i = k
      /\ \A i \in DOMAIN Tail(s) : i + 1 # 1
  <2>1. s \in Seq(Call) /\ s # <<>>
    BY <1>1
  <2> HIDE DEF s
  <2>2. QED
    BY <2>1, InboxTail
<1>4. \A k \in DOMAIN s :
        /\ s[k].query \in Requests
        /\ s[k].from \in Brokers =>
             /\ Awaits(job[s[k].from], reply[s[k].from], b, s[k].query)
             /\ \A n \in DOMAIN s : s[n].from = s[k].from => n = k
  BY DEF FedInv, CallsLinked
<1>5. call.query \in Requests
  BY <1>3, <1>4
<1>6. j \in Job /\ JobSound(config, b, j) /\ j.from = call.from /\ j.query = call.query
  <2> HIDE DEF call
  <2>1. j \in Job /\ JobSound(config, b, j)
    BY <1>1, <1>3, <1>5, StartSound
  <2>2. QED
    BY <2>1
<1> HIDE DEF j
<1>7. /\ job' \in [Brokers -> Job \cup {None}] /\ job'[b] = j
      /\ \A p \in Brokers : p # b => job'[p] = job[p]
  BY <1>1, <1>2, <1>6
<1>8. inbox' \in [Brokers -> Seq(Call)]
  BY <1>1, <1>3
<1>9. ASSUME NEW f \in Brokers, NEW p, NEW q, Awaits(job[f], reply[f], p, q)
      PROVE  f # b /\ Awaits(job'[f], reply'[f], p, q)
  BY <1>1, <1>7, <1>9 DEF Awaits
<1>10. TypeOK'
  BY <1>1, <1>7, <1>8 DEF FedInv, TypeOK
<1>11. JobsLinked'
  <2> SUFFICES ASSUME NEW p \in Brokers, job'[p] # None, job'[p].from \in Brokers
               PROVE  /\ job'[p].from # p
                      /\ Awaits(job'[job'[p].from], reply'[job'[p].from], p, job'[p].query)
    BY DEF JobsLinked
  <2>1. CASE p = b
    BY <1>3, <1>4, <1>6, <1>7, <1>9, <2>1
  <2>2. CASE p # b
    BY <1>7, <1>9, <2>2 DEF FedInv, JobsLinked
  <2>3. QED
    BY <2>1, <2>2
<1>12. CallsLinked'
  <2>1. ASSUME NEW p \in Brokers, NEW i \in DOMAIN inbox'[p]
        PROVE  /\ inbox'[p][i].query \in Requests
               /\ inbox'[p][i].from \in Brokers =>
                    /\ Awaits(job'[inbox'[p][i].from], reply'[inbox'[p][i].from],
                              p, inbox'[p][i].query)
                    /\ job'[p] # None => job'[p].from # inbox'[p][i].from
                    /\ \A k \in DOMAIN inbox'[p] :
                         inbox'[p][k].from = inbox'[p][i].from => k = i
    <3>1. CASE p # b
      <4>1. inbox'[p] = inbox[p] /\ job'[p] = job[p]
        BY <1>1, <1>7, <3>1
      <4>2. QED
        BY <1>9, <2>1, <4>1 DEF FedInv, CallsLinked
    <3>2. CASE p = b
      <4>1. inbox'[p] = Tail(s)
        BY <1>1, <3>2
      <4> DEFINE t == Tail(s)
      <4>2. /\ i \in DOMAIN t /\ inbox'[p] = t /\ i + 1 \in DOMAIN s /\ t[i] = s[i + 1]
            /\ i + 1 # 1
        BY <1>3, <2>1, <4>1
      <4>3. t[i].query \in Requests
        BY <1>4, <4>2
      <4>4. ASSUME t[i].from \in Brokers
            PROVE  /\ Awaits(job'[t[i].from], reply'[t[i].from], b, t[i].query)
                   /\ job'[b].from # t[i].from
                   /\ \A k \in DOMAIN t : t[k].from = t[i].from => k = i
        <5>1. Awaits(job[t[i].from], reply[t[i].from], b, t[i].query)
          BY <1>4, <4>2, <4>4
        <5>2. Awaits(job'[t[i].from], reply'[t[i].from], b, t[i].query)
          BY <1>9, <4>4, <5>1
        <5>3. job'[b].from # t[i].from
          <6>1. s[1].from = s[i + 1].from => 1 = i + 1
            BY <1>3, <1>4, <4>2, <4>4
          <6>2. QED
            BY <1>3, <1>6, <1>7, <4>2, <6>1
        <5>4. \A k \in DOMAIN t : t[k].from = t[i].from => k = i
          BY <1>3, <1>4, <4>2, <4>4
        <5>5. QED
          BY <5>2, <5>3, <5>4
      <4> HIDE DEF t
      <4>5. QED
        BY <3>2, <4>2, <4>3, <4>4
    <3>3. QED
      BY <3>1, <3>2
  <2>2. QED
    BY <2>1 DEF CallsLinked
<1>13. JobsSound'
  <2>1. ASSUME NEW p \in Brokers, job'[p] # None PROVE JobSound(config', p, job'[p])
    <3>1. CASE p = b
      BY <1>1, <1>6, <1>7, <3>1
    <3>2. CASE p # b
      BY <1>1, <1>7, <2>1, <3>2 DEF FedInv, JobsSound
    <3>3. QED
      BY <3>1, <3>2
  <2>2. QED
    BY <2>1 DEF JobsSound
<1>14. RepliesSound'
  <2> SUFFICES ASSUME NEW p \in Brokers, reply'[p] # None
               PROVE  /\ job'[p] # None /\ job'[p].asking
                      /\ ReplySound(config', Head(job'[p].remaining).id,
                                    job'[p].query, reply'[p])
    BY DEF RepliesSound
  <2>1. /\ job[p] # None /\ job[p].asking
        /\ ReplySound(config, Head(job[p].remaining).id, job[p].query, reply[p])
    BY <1>1 DEF FedInv, RepliesSound
  <2>2. p # b
    BY <1>1, <2>1
  <2>3. QED
    BY <1>1, <1>7, <2>1, <2>2
<1>15. AnswersSound'
  BY <1>1 DEF FedInv, AnswersSound
<1>16. QED
  BY <1>10, <1>11, <1>12, <1>13, <1>14, <1>15 DEF FedInv

LEMMA AskStep == ASSUME FedInv, NEW b \in Brokers, Ask(b) PROVE FedInv'
<1> DEFINE j == job[b]
           to == Head(j.remaining).id
           k == [j EXCEPT !.asking = TRUE, !.queried = @ \cup {to}]
           call == [from |-> b, query |-> j.query]
<1>1. /\ inbox \in [Brokers -> Seq(Call)] /\ j # None /\ ~j.asking /\ j.remaining # <<>>
      /\ job \in [Brokers -> Job \cup {None}] /\ None \notin Job /\ j \in Job
      /\ config \in Federations /\ JobSound(config, b, j)
      /\ config' = config /\ reply' = reply /\ answers' = answers
      /\ asked' = asked /\ inbox' = [inbox EXCEPT ![to] = Append(@, call)]
      /\ job' = [job EXCEPT ![b] = k]
  BY FederationAssumption DEF FedInv, TypeOK, JobsSound, Ask, NextPeer
<1>2. reply[b] = None
  BY <1>1 DEF FedInv, RepliesSound
\* Nobody has anything to do for b yet.
<1>3. /\ \A p \in Brokers : job[p] # None => job[p].from # b
      /\ \A p \in Brokers : \A i \in DOMAIN inbox[p] : inbox[p][i].from # b
  <2>1. \A p, q : ~Awaits(job[b], reply[b], p, q)
    BY <1>1 DEF Awaits
  <2>2. QED
    BY <2>1 DEF FedInv, JobsLinked, CallsLinked
<1>4. /\ k \in Job /\ JobSound(config, b, k) /\ k.asking
      /\ k.from = j.from /\ k.query = j.query /\ k.remaining = j.remaining
  <2> HIDE DEF j
  <2>1. k \in Job /\ JobSound(config, b, k)
    BY <1>1, GoesOnSound DEF to
  <2>2. k.asking /\ k.from = j.from /\ k.query = j.query /\ k.remaining = j.remaining
    BY <1>1 DEF Job
  <2>3. QED
    BY <2>1, <2>2
<1>5. call \in Call /\ call.from = b /\ call.query = j.query /\ j.query \in Requests
  <2>1. j.query \in Requests
    BY <1>1 DEF JobSound
  <2>2. j.query \in DiscoveryRequest /\ b \in Senders
    BY <2>1, FederationAssumption DEF Senders
  <2> HIDE DEF j
  <2>3. QED
    BY <2>1, <2>2 DEF Call
<1>6. Awaits(k, reply[b], to, j.query)
  <2> HIDE DEF k
  <2>1. k # None
    BY <1>1, <1>4
  <2>2. QED
    BY <1>2, <1>4, <2>1 DEF Awaits
<1> HIDE DEF j, k, to, call
<1>7. /\ job' \in [Brokers -> Job \cup {None}] /\ job'[b] = k
      /\ \A p \in Brokers : p # b => job'[p] = job[p]
  BY <1>1, <1>4
<1>8. inbox' \in [Brokers -> Seq(Call)]
  <2>1. \A s \in Seq(Call) : Append(s, call) \in Seq(Call)
    BY <1>5
  <2>2. \A p \in Brokers : inbox'[p] \in Seq(Call)
    BY <1>1, <2>1
  <2>3. inbox' = [p \in Brokers |-> inbox'[p]]
    BY <1>1
  <2>4. QED
    BY <2>2, <2>3
<1>9. ASSUME NEW f \in Brokers, NEW p, NEW q, Awaits(job[f], reply[f], p, q)
      PROVE  Awaits(job'[f], reply'[f], p, q)
  <2>1. f # b
    BY <1>1, <1>9 DEF Awaits, j
  <2>2. QED
    BY <1>1, <1>7, <1>9, <2>1
<1>10. \A p \in Brokers : job'[p] # None =>
          job[p] # None /\ job'[p].from = job[p].from /\ job'[p].query = job[p].query
  BY <1>1, <1>4, <1>7 DEF j
<1>11. TypeOK'
  BY <1>1, <1>7, <1>8 DEF FedInv, TypeOK
<1>12. JobsLinked'
  <2> SUFFICES ASSUME NEW p \in Brokers, job'[p] # None, job'[p].from \in Brokers
               PROVE  /\ job'[p].from # p
                      /\ Awaits(job'[job'[p].from], reply'[job'[p].from], p, job'[p].query)
    BY DEF JobsLinked
  <2>1. job[p] # None /\ job'[p].from = job[p].from /\ job'[p].query = job[p].query
    BY <1>10
  <2>2. job[p].from # p /\ Awaits(job[job[p].from], reply[job[p].from], p, job[p].query)
    BY <2>1 DEF FedInv, JobsLinked
  <2>3. QED
    BY <1>9, <2>1, <2>2
<1>13. CallsLinked'
  <2> SUFFICES ASSUME NEW p \in Brokers, NEW i \in DOMAIN inbox'[p]
               PROVE  /\ inbox'[p][i].query \in Requests
                      /\ inbox'[p][i].from \in Brokers =>
                           /\ Awaits(job'[inbox'[p][i].from], reply'[inbox'[p][i].from],
                                     p, inbox'[p][i].query)
                           /\ job'[p] # None => job'[p].from # inbox'[p][i].from
                           /\ \A n \in DOMAIN inbox'[p] :
                                inbox'[p][n].from = inbox'[p][i].from => n = i
    BY DEF CallsLinked
  <2> DEFINE old == inbox[p]
             new == inbox'[p]
  <2>1. old \in Seq(Call) /\ (new = old \/ (p = to /\ new = Append(old, call)))
    BY <1>1
  <2>2. \A n \in DOMAIN old :
          /\ old[n].query \in Requests
          /\ old[n].from \in Brokers =>
               /\ Awaits(job[old[n].from], reply[old[n].from], p, old[n].query)
               /\ job[p] # None => job[p].from # old[n].from
               /\ \A m \in DOMAIN old : old[m].from = old[n].from => m = n
    BY DEF FedInv, CallsLinked
  <2>3. \A n \in DOMAIN old : old[n].from # b
    BY <1>3
  <2>4. \A n \in DOMAIN old : old[n].from \in Brokers =>
          /\ Awaits(job'[old[n].from], reply'[old[n].from], p, old[n].query)
          /\ job'[p] # None => job'[p].from # old[n].from
    BY <1>9, <1>10, <2>2
  <2> HIDE DEF old, new
  <2>5. CASE new = old
    BY <2>2, <2>4, <2>5 DEF new
  <2>6. CASE p = to /\ new = Append(old, call)
    <3>1. /\ DOMAIN new = 1..(Len(old) + 1) /\ Len(old) \in Nat
          /\ DOMAIN old = 1..Len(old)
          /\ \A n \in 1..Len(old) : new[n] = old[n]
          /\ new[Len(old) + 1] = call
      BY <1>5, <2>1, <2>6
    <3>2. \A n \in DOMAIN new : n \in DOMAIN old \/ n = Len(old) + 1
      BY <3>1
    <3>3. CASE i \in DOMAIN old
      <4>1. new[i] = old[i]
        BY <3>1, <3>3
      <4>2. new[i].from \in Brokers =>
              \A n \in DOMAIN new : new[n].from = new[i].from => n = i
        BY <1>5, <2>2, <2>3, <3>1, <3>2, <3>3, <4>1
      <4>3. QED
        BY <2>2, <2>4, <3>3, <4>1, <4>2 DEF new
    <3>4. CASE i = Len(old) + 1
      <4>1. new[i] = call
        BY <3>1, <3>4
      <4>2. \A n \in DOMAIN new : new[n].from = new[i].from => n = i
        BY <1>5, <2>3, <3>1, <3>2, <3>4, <4>1
      <4>3. Awaits(job'[b], reply'[b], p, j.query)
        BY <1>1, <1>6, <1>7, <2>6
      <4>4. job'[p] # None => job'[p].from # b
        BY <1>3, <1>10
      <4>5. QED
        BY <1>5, <4>1, <4>2, <4>3, <4>4 DEF new
    <3>5. QED
      BY <3>2, <3>3, <3>4 DEF new
  <2>7. QED
    BY <2>1, <2>5, <2>6
<1>14. JobsSound'
  <2>1. ASSUME NEW p \in Brokers, job'[p] # None PROVE JobSound(config', p, job'[p])
    <3>1. CASE p = b
      BY <1>1, <1>4, <1>7, <3>1
    <3>2. CASE p # b
      BY <1>1, <1>7, <2>1, <3>2 DEF FedInv, JobsSound
    <3>3. QED
      BY <3>1, <3>2
  <2>2. QED
    BY <2>1 DEF JobsSound
<1>15. RepliesSound'
  <2> SUFFICES ASSUME NEW p \in Brokers, reply'[p] # None
               PROVE  /\ job'[p] # None /\ job'[p].asking
                      /\ ReplySound(config', Head(job'[p].remaining).id,
                                    job'[p].query, reply'[p])
    BY DEF RepliesSound
  <2>1. /\ job[p] # None /\ job[p].asking
        /\ ReplySound(config, Head(job[p].remaining).id, job[p].query, reply[p])
    BY <1>1 DEF FedInv, RepliesSound
  <2>2. p # b
    BY <1>1, <1>2
  <2>3. QED
    BY <1>1, <1>7, <2>1, <2>2
<1>16. AnswersSound'
  BY <1>1 DEF FedInv, AnswersSound
<1>17. QED
  BY <1>11, <1>12, <1>13, <1>14, <1>15, <1>16 DEF FedInv

--------------------------------------------------------------------------------
(* The theorems.                                                            *)

LEMMA FedNext == FedInv /\ [Next]_vars => FedInv'
<1> SUFFICES ASSUME FedInv, [Next]_vars PROVE FedInv'
  OBVIOUS
<1>1. ASSUME NEW b \in Brokers, NEW q \in Requests, Submit(b, q) PROVE FedInv'
  BY <1>1, SubmitStep
<1>2. ASSUME NEW b \in Brokers, Start(b) PROVE FedInv'
  BY <1>2, StartStep
<1>3. ASSUME NEW b \in Brokers, Drop(b) PROVE FedInv'
  BY <1>3, DropStep
<1>4. ASSUME NEW b \in Brokers, Ask(b) PROVE FedInv'
  BY <1>4, AskStep
<1>5. ASSUME NEW b \in Brokers, Collect(b) PROVE FedInv'
  BY <1>5, CollectStep
<1>6. ASSUME NEW b \in Brokers, CollectForeign(b) PROVE FedInv'
  BY <1>6, CollectForeignStep
<1>7. ASSUME NEW b \in Brokers, GiveUp(b) PROVE FedInv'
  BY <1>7, GiveUpStep
<1>8. ASSUME NEW b \in Brokers, Finish(b) PROVE FedInv'
  BY <1>8, FinishStep
<1>9. CASE UNCHANGED vars
  <2>1. /\ config' = config /\ asked' = asked /\ inbox' = inbox
        /\ job' = job /\ reply' = reply /\ answers' = answers
    BY <1>9 DEF vars
  <2>2. QED
    BY <2>1 DEF FedInv, TypeOK, JobsLinked, CallsLinked, JobsSound, RepliesSound, AnswersSound
<1>10. QED
  BY <1>1, <1>2, <1>3, <1>4, <1>5, <1>6, <1>7, <1>8, <1>9 DEF Next

LEMMA FedInvariant == Spec => []FedInv
<1>1. Init => FedInv
  BY FedInit
<1>2. FedInv /\ [Next]_vars => FedInv'
  BY FedNext
<1>3. QED
  BY <1>1, <1>2, PTL DEF Spec

\* What is in a client's answer is typed and sound.
LEMMA AnswerKnown ==
  ASSUME FedInv, NEW a \in AnswerSet
  PROVE  /\ a.broker \in Brokers /\ a.query \in Requests
         /\ a.candidates \in Seq(DiscoveryCandidate)
         /\ config \in Federations /\ AnswerSound(config, a)
<1>1. answers \in Seq(Answer) /\ config \in Federations
  BY DEF FedInv, TypeOK
<1>2. PICK i \in DOMAIN answers : a = answers[i]
  BY DEF AnswerSet, Elements
<1>3. a \in Answer /\ AnswerSound(config, a)
  BY <1>1, <1>2 DEF FedInv, AnswersSound
<1>4. a.broker \in Brokers /\ a.candidates \in Seq(DiscoveryCandidate)
  BY <1>3 DEF Answer
<1>5. a.query \in Requests
  BY <1>3 DEF AnswerSound
<1>6. QED
  BY <1>1, <1>3, <1>4, <1>5

LEMMA PeersAgree == \A b, p : HasPeer(b, p) <=> PeerIn(config, b, p)
BY DEF HasPeer, PeerIn

\* However the configurations look, and however many requests are under way, the brokers'
\* state stays well formed.
THEOREM FederationTypeCorrect == Spec => []TypeOK
<1>1. FedInv => TypeOK
  BY DEF FedInv
<1>2. QED
  BY <1>1, FedInvariant, PTL

\* However many brokers pass a query on, and whatever they are connected to, nobody is
\* shown a capability above the trust level it was asked with.
THEOREM TrustTierIsRespected == Spec => []TrustTierRespected
<1>1. FedInv => TrustTierRespected
  BY AnswerKnown DEF TrustTierRespected, AnswerSound, AllFit, Fits
<1>2. QED
  BY <1>1, FedInvariant, PTL

\* Every candidate's path is one it can have come, to a broker that holds it; a late
\* answer of one peer never passes for the answer of another.
THEOREM PathsLeadToHolders == Spec => []PathLeadsToHolder
<1>1. FedInv => PathLeadsToHolder
  <2> SUFFICES ASSUME FedInv, NEW a \in AnswerSet, NEW c \in Elements(a.candidates)
               PROVE  \E extra \in 0..1 :
                        LET hops == <<a.broker>> \o SubSeq(c.path, 1, Len(c.path) - extra)
                        IN  /\ Holds(Last(hops), c.id)
                            /\ config[Last(hops)].enabled <=> extra = 1
                            /\ \A i \in 1..(Len(hops) - 1) : HasPeer(hops[i], hops[i + 1])
    BY DEF PathLeadsToHolder
  <2>1. /\ a.broker \in Brokers /\ c \in DiscoveryCandidate
        /\ AllFit(config, a.broker, a.query, a.candidates)
    <3>1. a.broker \in Brokers /\ a.candidates \in Seq(DiscoveryCandidate) /\ AnswerSound(config, a)
      BY AnswerKnown
    <3>2. c \in DiscoveryCandidate
      BY <3>1 DEF Elements
    <3>3. QED
      BY <3>1, <3>2 DEF AnswerSound
  <2>2. PICK extra \in 0..1 : Leads(config, a.broker, c, extra)
    BY <2>1 DEF AllFit, Fits
  <2> DEFINE b == a.broker
             path == c.path
             n == Len(path) - extra
             way == SubSeq(path, 1, n)
             first == <<b>>
             hops == first \o way
  <2>3. path \in Seq(Brokers) /\ b \in Brokers
    BY <2>1 DEF DiscoveryCandidate
  <2>4. Len(path) \in Nat /\ DOMAIN path = 1..Len(path)
    BY <2>3
  <2>5. /\ n >= 0
        /\ Holds(Hop(b, path, n), c.id)
        /\ config[Hop(b, path, n)].enabled <=> extra = 1
        /\ \A i \in 0..(n - 1) : PeerIn(config, Hop(b, path, i), Hop(b, path, i + 1))
    BY <2>2 DEF Leads
  <2> HIDE DEF path, b
  <2>6. n \in Nat /\ n <= Len(path)
    BY <2>4, <2>5
  <2> HIDE DEF n
  <2>7. way \in Seq(Brokers) /\ Len(way) = n /\ \A i \in 1..n : way[i] = path[i]
    <3>1. \A i \in 1..n : path[i] \in Brokers
      BY <2>3, <2>4, <2>6
    <3>2. /\ way \in Seq(Brokers)
          /\ Len(way) = IF 1 <= n THEN n - 1 + 1 ELSE 0
          /\ \A i \in 1..(n - 1 + 1) : way[i] = path[1 + i - 1]
      BY <2>6, <3>1, SubSeqProperties
    <3>3. (IF 1 <= n THEN n - 1 + 1 ELSE 0) = n /\ n - 1 + 1 = n
          /\ \A i \in 1..n : 1 + i - 1 = i
      BY <2>6
    <3>4. QED
      BY <3>2, <3>3
  <2> HIDE DEF way
  <2>8. first \in Seq(Brokers) /\ Len(first) = 1 /\ first[1] = b
    BY <2>3
  <2> HIDE DEF first
  <2>9. /\ Len(hops) = n + 1
        /\ \A i \in 0..n : hops[i + 1] = Hop(b, path, i)
    <3>1. /\ Len(hops) = Len(first) + Len(way)
          /\ \A i \in 1..(Len(first) + Len(way)) :
               hops[i] = IF i <= Len(first) THEN first[i] ELSE way[i - Len(first)]
      BY <2>7, <2>8, ConcatProperties
    <3>2. Len(first) + Len(way) = n + 1
      BY <2>6, <2>7, <2>8
    <3>3. ASSUME NEW i \in 0..n PROVE hops[i + 1] = Hop(b, path, i)
      <4>1. CASE i = 0
        <5>1. 1 \in 1..(n + 1) /\ 1 <= Len(first) /\ 0 + 1 = 1
          BY <2>6, <2>8
        <5>2. hops[1] = first[1]
          BY <3>1, <3>2, <5>1
        <5>3. QED
          BY <2>8, <4>1, <5>1, <5>2 DEF Hop
      <4>2. CASE i # 0
        <5>1. /\ i + 1 \in 1..(n + 1) /\ ~(i + 1 <= Len(first))
              /\ i + 1 - Len(first) = i /\ i \in 1..n
          BY <2>6, <2>8, <4>2
        <5>2. hops[i + 1] = way[i]
          BY <3>1, <3>2, <5>1
        <5>3. QED
          BY <2>7, <4>2, <5>1, <5>2 DEF Hop
      <4>3. QED
        BY <4>1, <4>2
    <3>4. QED
      BY <3>1, <3>2, <3>3
  <2> HIDE DEF hops
  <2>10. Last(hops) = Hop(b, path, n)
    BY <2>6, <2>9 DEF Last
  <2>11. ASSUME NEW i \in 1..(Len(hops) - 1) PROVE HasPeer(hops[i], hops[i + 1])
    <3>1. i - 1 \in 0..(n - 1) /\ i - 1 \in 0..n /\ i \in 0..n /\ i - 1 + 1 = i
      BY <2>6, <2>9
    <3>2. hops[i] = Hop(b, path, i - 1) /\ hops[i + 1] = Hop(b, path, i)
      BY <2>9, <3>1
    <3>3. PeerIn(config, Hop(b, path, i - 1), Hop(b, path, i))
      BY <2>5, <3>1
    <3>4. QED
      BY <3>2, <3>3, PeersAgree
  <2>12. QED
    BY <2>5, <2>10, <2>11 DEF hops, first, way, n, path, b
<1>2. QED
  BY <1>1, FedInvariant, PTL

\* In soft mode no failure of a peer, nor of a peer's peers, reaches the client: it is
\* answered, with all that the broker itself has to offer first.
THEOREM SoftModeIsAnswered == Spec => []SoftModeAnswers
<1>1. FedInv => SoftModeAnswers
  <2> SUFFICES ASSUME FedInv, NEW a \in AnswerSet,
                      ~config[a.broker].strict, \A p \in Foreign : ~HasPeer(a.broker, p)
               PROVE  LET all == LocalCandidates(a.broker, config[a.broker],
                                                 Found[a.broker][a.query])
                          own == FirstOf(all, a.query.maxResults)
                      IN  a.ok /\ (config[a.broker].preferLocal => IsPrefix(own, a.candidates))
    BY DEF SoftModeAnswers
  <2>1. AnswerSound(config, a)
    BY AnswerKnown
  <2>2. Soft(config, a.broker)
    BY PeersAgree DEF Soft
  <2>3. QED
    BY <2>1, <2>2 DEF AnswerSound, OwnFirst
<1>2. QED
  BY <1>1, FedInvariant, PTL

\* What an answer lacks it says: with the HTTP client every peer is listed as queried, and
\* an answer that is not full has everything of a peer queried that is not listed as failed.
THEOREM NothingIsSilentlyMissing == Spec => []NothingSilentlyMissing
<1>1. FedInv => NothingSilentlyMissing
  <2> SUFFICES ASSUME FedInv, NEW a \in AnswerSet,
                      a.ok, NEW p \in Brokers, HasPeer(a.broker, p)
               PROVE  /\ a.query.includeRemote /\ config[a.broker].httpx => p \in a.queried
                      /\ p \in a.queried \ a.failed /\ Len(a.candidates) < a.query.maxResults =>
                           \A found \in Elements(Found[p][a.query]) :
                             \E c \in Elements(a.candidates) : c.id = found.id /\ c.source = p
    BY DEF NothingSilentlyMissing
  <2>1. AnswerSound(config, a)
    BY AnswerKnown
  <2>2. /\ a.query.includeRemote /\ config[a.broker].httpx => p \in a.queried
        /\ p \in a.queried \ a.failed /\ Len(a.candidates) < a.query.maxResults =>
             CompleteFrom(p, a.query, a.candidates)
    BY <2>1, PeersAgree DEF AnswerSound
  <2>3. QED
    BY <2>2 DEF CompleteFrom
<1>2. QED
  BY <1>1, FedInvariant, PTL

\* What a client is told does not depend on the order in which peers are configured and
\* asked: no shuffle of what they answered that keeps each peer's own order shows.
THEOREM ConfigOrderIsImmaterial == Spec => []ConfigOrderDoesNotMatter
<1>1. FedInv => ConfigOrderDoesNotMatter
  <2> SUFFICES ASSUME FedInv, NEW b \in Brokers, job[b] # None, NEW p \in Shuffles(job[b].remotes)
               PROVE  Aggregate(config[b], job[b].locals, Shuffled(job[b].remotes, p))
                        = Aggregate(config[b], job[b].locals, job[b].remotes)
    BY DEF ConfigOrderDoesNotMatter
  <2>1. job[b] \in Job /\ JobSound(config, b, job[b])
    BY DEF FedInv, TypeOK, JobsSound
  <2>2. job[b].remotes \in Seq(DiscoveryCandidate) /\ FromBrokers(job[b].remotes)
    BY <2>1, JobFields DEF JobSound, FromBrokers
  <2>3. StableSort(Shuffled(job[b].remotes, p), RemoteBefore) = StableSort(job[b].remotes, RemoteBefore)
    BY <2>2, ShuffleSorted
  <2>4. QED
    BY <2>3 DEF Aggregate
<1>2. QED
  BY <1>1, FedInvariant, PTL
================================================================================
