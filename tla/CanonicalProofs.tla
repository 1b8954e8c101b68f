------------------------------ MODULE CanonicalProofs ------------------------------
(***************************************************************************)
(* The canonical pipeline fails closed, its audit log tells what its        *)
(* bundles tell, it is nowhere laxer than the broker's engine, and its      *)
(* plans depend on what is offered and not on how it is listed: proved for  *)
(* every instance of it.                                                   *)
(***************************************************************************)
EXTENDS CanonicalPipeline, BrokerRulesProofs

--------------------------------------------------------------------------------
(* The n-th of a set of places.                                             *)

LEMMA PlacesFinite ==
  ASSUME NEW N \in Nat, NEW places \in SUBSET (1..N)
  PROVE  IsFiniteSet(places)
<1>1. IsFiniteSet(1..N)
  BY FS_Interval
<1>2. QED
  BY <1>1, FS_Subset

LEMMA NthPlaces ==
  ASSUME NEW N \in Nat, NEW places \in SUBSET (1..N)
  PROVE  /\ Cardinality(places) \in Nat
         /\ \A n \in 1..Cardinality(places) : Nth(places, n) \in places
         /\ \A i \in places : \E n \in 1..Cardinality(places) : Nth(places, n) = i
<1> DEFINE order == {p \in places \X places : p[1] < p[2]}
           rank(i) == Cardinality({j \in places : j < i})
<1>1. IsFiniteSet(places)
  BY PlacesFinite
<1>2. \A i \in places : i \in Nat
  OBVIOUS
<1>3. \A i, j \in places : <<j, i>> \in order <=> j < i
  OBVIOUS
<1>4. StrictTotal(order, places)
  BY <1>2, <1>3 DEF StrictTotal
<1>5. \A i \in places : Rank(i, order, places) = rank(i)
  <2> SUFFICES ASSUME NEW i \in places
               PROVE  {j \in places : <<j, i>> \in order} = {j \in places : j < i}
    BY DEF Rank
  <2>1. QED
    BY <1>3
<1> HIDE DEF order
<1>6. /\ Cardinality(places) \in Nat
      /\ \A i \in places : rank(i) \in 0..(Cardinality(places) - 1)
      /\ \A i, j \in places : rank(i) = rank(j) => i = j
      /\ \A n \in 1..Cardinality(places) : \E i \in places : rank(i) = n - 1
  <2> HIDE DEF rank
  <2>1. /\ Cardinality(places) \in Nat
        /\ \A i \in places : Rank(i, order, places) \in 0..(Cardinality(places) - 1)
        /\ \A i, j \in places : Rank(i, order, places) = Rank(j, order, places) => i = j
        /\ \A n \in 1..Cardinality(places) :
             \E i \in places : Rank(i, order, places) = n - 1
    BY <1>1, <1>4, Ranking
  <2>2. QED
    BY <1>5, <2>1
<1>7. ASSUME NEW n \in 1..Cardinality(places)
      PROVE  Nth(places, n) \in places /\ rank(Nth(places, n)) = n - 1
  BY <1>6 DEF Nth
<1>8. ASSUME NEW i \in places
      PROVE  \E n \in 1..Cardinality(places) : Nth(places, n) = i
  <2> DEFINE n == rank(i) + 1
  <2>1. n \in 1..Cardinality(places) /\ n - 1 = rank(i)
    <3>1. Cardinality(places) \in Nat /\ rank(i) \in 0..(Cardinality(places) - 1)
      BY <1>6
    <3> HIDE DEF rank
    <3>2. QED
      BY <3>1
  <2>2. Nth(places, n) \in places /\ rank(Nth(places, n)) = rank(i)
    BY <1>7, <2>1
  <2>3. QED
    BY <1>6, <2>1, <2>2
<1>9. QED
  BY <1>6, <1>7, <1>8

\* A comprehension yields the offers at its places and no others.
LEMMA OffersAtPlaces ==
  ASSUME NEW S, NEW offers \in Seq(S), NEW places, places \subseteq DOMAIN offers
  PROVE  /\ OffersAt(offers, places) \in Seq(S)
         /\ Elements(OffersAt(offers, places)) = {offers[i] : i \in places}
         /\ OffersAt(offers, places) = <<>> <=> places = {}
<1> DEFINE kept == OffersAt(offers, places)
           count == Cardinality(places)
<1>1. Len(offers) \in Nat /\ DOMAIN offers = 1..Len(offers) /\ places \subseteq 1..Len(offers)
  OBVIOUS
<1>2. count \in Nat /\ (count = 0 <=> places = {})
  BY <1>1, NthPlaces, PlacesFinite, FS_EmptySet
<1>3. \A n \in 1..count : Nth(places, n) \in places
  BY <1>1, NthPlaces
<1>4. kept = [n \in 1..count |-> offers[Nth(places, n)]]
  BY DEF OffersAt
<1> HIDE DEF kept, count
<1>5. kept \in [1..count -> S]
  BY <1>1, <1>3, <1>4
<1>6. kept \in Seq(S) /\ Len(kept) = count
  BY <1>2, <1>5, IsASeq, LenProperties
<1>7. DOMAIN kept = 1..count /\ \A n \in 1..count : kept[n] = offers[Nth(places, n)]
  BY <1>4
<1>8. Elements(kept) = {offers[i] : i \in places}
  <2>1. ASSUME NEW i \in places PROVE offers[i] \in Elements(kept)
    <3>1. PICK n \in 1..count : Nth(places, n) = i
      BY <1>1, NthPlaces DEF count
    <3>2. QED
      BY <1>7, <3>1 DEF Elements
  <2>2. ASSUME NEW n \in DOMAIN kept PROVE kept[n] \in {offers[i] : i \in places}
    BY <1>3, <1>7
  <2>3. QED
    BY <2>1, <2>2 DEF Elements
<1>9. kept = <<>> <=> places = {}
  BY <1>2, <1>6
<1>10. QED
  BY <1>6, <1>8, <1>9 DEF kept
--------------------------------------------------------------------------------
(* What the engine allows and the planner takes.                            *)

\* The least provider's least id, and of equals the first: the sort has a first element.
LEMMA FirstSortedIsLeast ==
  ASSUME NEW s \in Seq(Offer), s # <<>>
  PROVE  /\ FirstSorted(s) \in Elements(s)
         /\ \A o \in Elements(s) : ~OfferBefore(o, FirstSorted(s))
<1> DEFINE IdOf(i) == IdRank[s[i].cap.id]
<1>1. /\ Len(s) \in Nat /\ DOMAIN s = 1..Len(s) /\ 1 \in DOMAIN s
      /\ \A i \in DOMAIN s : s[i] \in Offer
  OBVIOUS
<1>2. \A i \in DOMAIN s : i \in Nat /\ s[i].provider \in Nat /\ IdOf(i) \in Nat
  BY <1>1, CanonicalRulesAssumption DEF Offer, CapabilityDescriptor
<1>3. PICK p \in {s[i].provider : i \in DOMAIN s} :
        \A q \in {s[i].provider : i \in DOMAIN s} : p <= q
  <2>1. {s[i].provider : i \in DOMAIN s} \subseteq Nat
    BY <1>2
  <2>2. {s[i].provider : i \in DOMAIN s} # {}
    BY <1>1
  <2>3. QED
    BY <2>1, <2>2, Least
<1> DEFINE I == {i \in DOMAIN s : s[i].provider = p}
           IdsOf == {IdOf(i) : i \in I}
<1>4. PICK r \in IdsOf : \A q \in IdsOf : r <= q
  <2>1. IdsOf \subseteq Nat
    BY <1>2
  <2>2. IdsOf # {}
    BY <1>3
  <2> HIDE DEF IdsOf
  <2>3. QED
    BY <2>1, <2>2, Least
<1> DEFINE J == {i \in I : IdOf(i) = r}
<1>5. PICK k \in J : \A j \in J : k <= j
  <2>1. J \subseteq Nat
    BY <1>2
  <2>2. J # {}
    BY <1>4
  <2> HIDE DEF J
  <2>3. QED
    BY <2>1, <2>2, Least
<1>6. /\ k \in DOMAIN s /\ s[k].provider = p /\ IdOf(k) = r
      /\ p \in Nat /\ r \in Nat /\ k \in Nat
  BY <1>2, <1>5
<1>7. \A j \in DOMAIN s :
        /\ p <= s[j].provider
        /\ s[j].provider = p => r <= IdOf(j)
        /\ s[j].provider = p /\ IdOf(j) = r => k <= j
  BY <1>3, <1>4, <1>5
<1> HIDE DEF I, J, IdsOf
<1>8. \A j \in DOMAIN s : ~OfferBefore(s[j], s[k])
  BY <1>2, <1>6, <1>7 DEF OfferBefore
<1>9. \A j \in 1..(k - 1) : OfferBefore(s[k], s[j])
  <2> SUFFICES ASSUME NEW j \in 1..(k - 1) PROVE OfferBefore(s[k], s[j])
    OBVIOUS
  <2>1. j \in DOMAIN s /\ ~(k <= j)
    BY <1>1, <1>6
  <2>2. QED
    BY <1>2, <1>6, <1>7, <2>1 DEF OfferBefore
<1> DEFINE First(i) == /\ \A j \in DOMAIN s : ~OfferBefore(s[j], s[i])
                       /\ \A j \in 1..(i - 1) : OfferBefore(s[i], s[j])
<1>10. PICK i \in DOMAIN s : First(i) /\ FirstSorted(s) = s[i]
  <2>1. First(k)
    BY <1>8, <1>9
  <2> HIDE DEF First
  <2>2. First(CHOOSE i \in DOMAIN s : First(i)) /\ (CHOOSE i \in DOMAIN s : First(i)) \in DOMAIN s
    BY <1>6, <2>1
  <2>3. FirstSorted(s) = s[CHOOSE i \in DOMAIN s : First(i)]
    BY DEF FirstSorted, First
  <2>4. QED
    BY <2>2, <2>3
<1>11. QED
  BY <1>10 DEF Elements

\* Those of a set of offers that the built-in engine lets through.
Passing(int, S) == {o \in S : Passes(int, o.cap)}

\* The engine is a function of the set of offers, but for the order of its list.
LEMMA EvaluateAllAnswers ==
  ASSUME NEW int, NEW offers \in Seq(Offer), NEW eng
  PROVE  LET res == EvaluateAll(int, offers, eng)
             passing == Passing(int, Elements(offers))
         IN  /\ res \in PolicyResult
             /\ res.allowed <=> /\ ~(eng.provenance /\ Anonymous(int))
                                /\ ~(int.depth > MaxDelegationDepth)
                                /\ passing # {}
             /\ res.allowed =>
                  /\ res.capabilities # <<>>
                  /\ Elements(res.capabilities) = passing
                  /\ res.approvals =
                       {o.cap.id : o \in {p \in passing : ApprovalNeeded(p.cap, eng.enforce)}}
<1> DEFINE places == {i \in DOMAIN offers : Passes(int, offers[i].cap)}
           kept == OffersAt(offers, places)
           res == EvaluateAll(int, offers, eng)
           passing == Passing(int, Elements(offers))
<1>1. /\ kept \in Seq(Offer) /\ (kept = <<>> <=> places = {})
      /\ Elements(kept) = {offers[i] : i \in places}
  BY OffersAtPlaces
<1>2. Elements(kept) = passing /\ passing \subseteq Offer
  <2>1. \A i \in DOMAIN offers : offers[i] \in Offer
    OBVIOUS
  <2>2. passing \subseteq Offer
    BY <2>1 DEF Passing, Elements
  <2>3. passing = {offers[i] : i \in places}
    BY DEF Passing, Elements
  <2>4. QED
    BY <1>1, <2>2, <2>3
<1>3. kept = <<>> <=> passing = {}
  BY <1>1 DEF Passing, Elements
<1>4. \A reason \in ReasonCodes :
        /\ DenyWith(reason) \in PolicyResult
        /\ ~DenyWith(reason).allowed
  BY DEF DenyWith, PolicyResult
<1>5. /\ Allow(kept, eng.enforce).allowed
      /\ Allow(kept, eng.enforce).capabilities = kept
      /\ Allow(kept, eng.enforce).approvals =
           {o.cap.id : o \in {p \in Elements(kept) : ApprovalNeeded(p.cap, eng.enforce)}}
      /\ Allow(kept, eng.enforce).reason = "ALLOWED"
  BY DEF Allow
<1>6. Allow(kept, eng.enforce) \in PolicyResult
  <2>1. {o.cap.id : o \in {p \in Elements(kept) : ApprovalNeeded(p.cap, eng.enforce)}}
          \subseteq CapIds
    BY <1>2 DEF Offer, CapabilityDescriptor
  <2>2. QED
    BY <1>1, <2>1 DEF Allow, PolicyResult, ReasonCodes
<1>7. res = IF eng.provenance /\ Anonymous(int) THEN DenyWith("MISSING_PROVENANCE")
            ELSE IF int.depth > MaxDelegationDepth THEN DenyWith("DELEGATION_CHAIN_TOO_LONG")
            ELSE IF kept = <<>> THEN DenyWith("NO_ALLOWED_CAPABILITIES")
            ELSE Allow(kept, eng.enforce)
  BY DEF EvaluateAll
<1>8. {"MISSING_PROVENANCE", "DELEGATION_CHAIN_TOO_LONG", "NO_ALLOWED_CAPABILITIES"}
        \subseteq ReasonCodes
  BY DEF ReasonCodes
<1> HIDE DEF kept, places, res, passing
<1>9. QED
  BY <1>2, <1>3, <1>4, <1>5, <1>6, <1>7, <1>8 DEF res, passing

\* What is eligible has an allowed id, and there is something if anything was allowed.
LEMMA EligibleIsAllowed ==
  ASSUME NEW pol \in PolicyResult, pol.capabilities # <<>>, NEW offers \in Seq(Offer)
  PROVE  LET known == {o \in Elements(offers) : o.cap.id \in AllowedIds(pol)}
         IN  /\ Eligible(pol, offers) \in Seq(Offer) /\ Eligible(pol, offers) # <<>>
             /\ Elements(Eligible(pol, offers)) =
                  IF known = {} THEN Elements(pol.capabilities) ELSE known
             /\ \A o \in Elements(Eligible(pol, offers)) : o.cap.id \in AllowedIds(pol)
<1> DEFINE places == KnownPlaces(pol, offers)
           kept == OffersAt(offers, places)
           known == {o \in Elements(offers) : o.cap.id \in AllowedIds(pol)}
<1>1. /\ kept \in Seq(Offer) /\ (kept = <<>> <=> places = {})
      /\ Elements(kept) = {offers[i] : i \in places}
  <2>1. places \subseteq DOMAIN offers
    BY DEF KnownPlaces
  <2> HIDE DEF places
  <2>2. QED
    BY <2>1, OffersAtPlaces
<1>2. Elements(kept) = known /\ (places = {} <=> known = {})
  BY <1>1 DEF KnownPlaces, Elements
<1>3. Eligible(pol, offers) = IF kept = <<>> THEN pol.capabilities ELSE kept
  BY DEF Eligible
<1>4. pol.capabilities \in Seq(Offer)
  BY DEF PolicyResult
<1>5. \A o \in Elements(pol.capabilities) : o.cap.id \in AllowedIds(pol)
  BY DEF AllowedIds
<1> HIDE DEF kept, places
<1>6. QED
  BY <1>1, <1>2, <1>3, <1>4, <1>5

\* Under whatever policy result, a plan is one for an allowed id.
LEMMA PlanIsAllowed ==
  ASSUME NEW int \in NormalizedIntent, NEW pol \in PolicyResult, NEW offers \in Seq(Offer),
         PlanFor(int, pol, offers) # None
  PROVE  LET made == PlanFor(int, pol, offers)
         IN  /\ made \in CanonicalPlan
             /\ pol.allowed /\ pol.capabilities # <<>>
             /\ made.offer = FirstSorted(Eligible(pol, offers))
             /\ made.offer \in Elements(Eligible(pol, offers))
             /\ made.offer.cap.id \in AllowedIds(pol)
             /\ made.binding = BestBinding(int, made.offer.cap)
             /\ made.binding \in Elements(made.offer.cap.bindings)
             /\ made.approvalRequired <=> pol.approvals # {}
<1> DEFINE made == PlanFor(int, pol, offers)
           chosen == FirstSorted(Eligible(pol, offers))
<1>1. pol.allowed /\ pol.capabilities # <<>>
  BY DEF PlanFor
<1>2. chosen \in Elements(Eligible(pol, offers)) /\ chosen.cap.id \in AllowedIds(pol)
  BY <1>1, EligibleIsAllowed, FirstSortedIsLeast
<1>3. chosen \in Offer
  <2>1. Eligible(pol, offers) \in Seq(Offer)
    BY <1>1, EligibleIsAllowed
  <2>2. QED
    BY <1>2, <2>1 DEF Elements
<1>4. BestBinding(int, chosen.cap) # None /\ made = PlanOf(int, pol, chosen)
  BY <1>1 DEF PlanFor
<1> HIDE DEF made, chosen
<1>5. /\ made.offer = chosen /\ made.binding = BestBinding(int, chosen.cap)
      /\ made.approvalRequired <=> pol.approvals # {}
  BY <1>4 DEF PlanOf
<1>6. chosen.cap.bindings \in Seq(BindingTypes)
  BY <1>3 DEF Offer, CapabilityDescriptor
<1>7. made.binding \in Elements(chosen.cap.bindings)
  BY <1>4, <1>5, <1>6 DEF BestBinding, Elements
<1>8. made.binding \in BindingTypes
  BY <1>6, <1>7 DEF Elements
<1>9. made \in CanonicalPlan
  BY <1>3, <1>4, <1>5, <1>8 DEF PlanOf, CanonicalPlan
<1>10. QED
  BY <1>1, <1>2, <1>5, <1>7, <1>9 DEF made, chosen

--------------------------------------------------------------------------------
(* With one candidate per id the plan is a function of the set of offers.   *)

DistinctIds(S) == \A o, p \in S : o.cap.id = p.cap.id => o = p

LEMMA DistinctOffers ==
  ASSUME NEW offers, Distinct(offers)
  PROVE  DistinctIds(Elements(offers))
BY DEF Distinct, DistinctIds, Elements

\* Then what is eligible under the built-in engine is what passed.
LEMMA EligiblePassed ==
  ASSUME NEW int, NEW offers \in Seq(Offer), DistinctIds(Elements(offers)), NEW eng,
         EvaluateAll(int, offers, eng).allowed
  PROVE  LET res == EvaluateAll(int, offers, eng)
         IN  /\ Eligible(res, offers) \in Seq(Offer) /\ Eligible(res, offers) # <<>>
             /\ Elements(Eligible(res, offers)) = Passing(int, Elements(offers))
<1> DEFINE res == EvaluateAll(int, offers, eng)
           S == Elements(offers)
           known == {o \in S : o.cap.id \in AllowedIds(res)}
<1>1. /\ res \in PolicyResult /\ res.capabilities # <<>>
      /\ Elements(res.capabilities) = Passing(int, S)
  BY EvaluateAllAnswers
<1> HIDE DEF res
<1>2. known = Passing(int, S)
  BY <1>1 DEF AllowedIds, Passing, DistinctIds
<1>3. /\ Eligible(res, offers) \in Seq(Offer) /\ Eligible(res, offers) # <<>>
      /\ Elements(Eligible(res, offers)) =
           IF known = {} THEN Elements(res.capabilities) ELSE known
  BY <1>1, EligibleIsAllowed
<1>4. QED
  BY <1>1, <1>2, <1>3 DEF res

\* Of distinct offers only one can come first.
LEMMA FirstIsUnique ==
  ASSUME NEW S, S \subseteq Offer, DistinctIds(S), NEW o \in S, NEW p \in S,
         ~OfferBefore(o, p), ~OfferBefore(p, o)
  PROVE  o = p
<1>1. /\ o.provider \in Nat /\ p.provider \in Nat
      /\ o.cap.id \in CapIds /\ p.cap.id \in CapIds
  BY DEF Offer, CapabilityDescriptor
<1>2. IdRank[o.cap.id] \in Nat /\ IdRank[p.cap.id] \in Nat
  BY <1>1, CanonicalRulesAssumption
<1>3. IdRank[o.cap.id] = IdRank[p.cap.id]
  BY <1>1, <1>2 DEF OfferBefore
<1>4. o.cap.id = p.cap.id
  BY <1>1, <1>3, CanonicalRulesAssumption
<1>5. QED
  BY <1>4 DEF DistinctIds

\* A plan that was made for some offers is made again for others, approval apart, if
\* the offer it takes is among them and no other passes that did not pass before.
LEMMA PlannedAgain ==
  ASSUME NEW int \in NormalizedIntent, NEW eng,
         NEW offers \in Seq(Offer), DistinctIds(Elements(offers)),
         NEW others \in Seq(Offer), Elements(others) \subseteq Elements(offers),
         PlanFor(int, EvaluateAll(int, offers, eng), offers) # None,
         PlanFor(int, EvaluateAll(int, offers, eng), offers).offer \in Elements(others)
  PROVE  LET made  == PlanFor(int, EvaluateAll(int, offers, eng), offers)
             again == EvaluateAll(int, others, eng)
         IN  /\ again.approvals \subseteq EvaluateAll(int, offers, eng).approvals
             /\ Elements(offers) = Elements(others) =>
                  again.approvals = EvaluateAll(int, offers, eng).approvals
             /\ made = PlanOf(int, EvaluateAll(int, offers, eng), made.offer)
             /\ PlanFor(int, again, others) = PlanOf(int, again, made.offer)
<1> DEFINE res   == EvaluateAll(int, offers, eng)
           again == EvaluateAll(int, others, eng)
           made  == PlanFor(int, res, offers)
           S == Elements(offers)
           U == Elements(others)
           old == Eligible(res, offers)
           new == Eligible(again, others)
<1>1. /\ res \in PolicyResult /\ again \in PolicyResult
      /\ res.allowed <=> /\ ~(eng.provenance /\ Anonymous(int))
                         /\ ~(int.depth > MaxDelegationDepth)
                         /\ Passing(int, S) # {}
      /\ again.allowed <=> /\ ~(eng.provenance /\ Anonymous(int))
                           /\ ~(int.depth > MaxDelegationDepth)
                           /\ Passing(int, U) # {}
      /\ again.allowed => again.capabilities # <<>>
      /\ res.allowed =>
           res.approvals =
             {o.cap.id : o \in {p \in Passing(int, S) : ApprovalNeeded(p.cap, eng.enforce)}}
      /\ again.allowed =>
           again.approvals =
             {o.cap.id : o \in {p \in Passing(int, U) : ApprovalNeeded(p.cap, eng.enforce)}}
  BY EvaluateAllAnswers
<1>2. /\ res.allowed /\ made.offer = FirstSorted(old) /\ made.offer \in Elements(old)
      /\ made.binding = BestBinding(int, made.offer.cap)
      /\ made = PlanOf(int, res, made.offer)
      /\ BestBinding(int, made.offer.cap) # None
  <2>1. /\ res.allowed /\ res.capabilities # <<>>
        /\ made.offer = FirstSorted(old) /\ made.offer \in Elements(old)
        /\ made.binding = BestBinding(int, made.offer.cap)
    BY <1>1, PlanIsAllowed
  <2>2. BestBinding(int, FirstSorted(old).cap) # None
    BY <2>1 DEF PlanFor
  <2>3. made = PlanOf(int, res, FirstSorted(old))
    BY <2>1, <2>2 DEF PlanFor
  <2>4. QED
    BY <2>1, <2>2, <2>3
<1> DEFINE chosen == made.offer
<1>3. /\ old \in Seq(Offer) /\ old # <<>> /\ Elements(old) = Passing(int, S)
  BY <1>2, EligiblePassed
<1>4. chosen \in S /\ Passes(int, chosen.cap) /\ chosen \in U
  BY <1>2, <1>3 DEF Passing
<1>5. again.allowed
  BY <1>1, <1>2, <1>4 DEF Passing
<1>6. DistinctIds(U) /\ S \subseteq Offer
  <2>1. \A i \in DOMAIN offers : offers[i] \in Offer
    OBVIOUS
  <2>2. S \subseteq Offer
    BY <2>1 DEF Elements
  <2>3. QED
    BY <2>2 DEF DistinctIds
<1>7. /\ new \in Seq(Offer) /\ new # <<>> /\ Elements(new) = Passing(int, U)
  BY <1>5, <1>6, EligiblePassed
<1>8. FirstSorted(new) = chosen
  <2>1. /\ FirstSorted(new) \in Elements(new)
        /\ \A o \in Elements(new) : ~OfferBefore(o, FirstSorted(new))
    BY <1>7, FirstSortedIsLeast
  <2>2. \A o \in Elements(old) : ~OfferBefore(o, FirstSorted(old))
    BY <1>3, FirstSortedIsLeast
  <2>3. chosen \in Elements(new) /\ FirstSorted(new) \in Elements(old)
    BY <1>3, <1>4, <1>7, <2>1 DEF Passing
  <2>4. ~OfferBefore(chosen, FirstSorted(new)) /\ ~OfferBefore(FirstSorted(new), chosen)
    BY <1>2, <2>1, <2>2, <2>3
  <2>5. FirstSorted(new) \in S
    BY <1>3, <2>3 DEF Passing
  <2>6. QED
    BY <1>4, <1>6, <2>4, <2>5, FirstIsUnique
<1> HIDE DEF chosen, made, res, again, old, new, S, U
<1>9. PlanFor(int, again, others) = PlanOf(int, again, chosen)
  <2>1. BestBinding(int, chosen.cap) # None
    BY <1>2 DEF chosen
  <2>2. QED
    BY <1>1, <1>5, <1>8, <2>1 DEF PlanFor, new
<1>10. again.approvals \subseteq res.approvals /\ (S = U => again.approvals = res.approvals)
  <2>1. U \subseteq S
    BY DEF U, S
  <2>2. QED
    BY <1>1, <1>2, <1>5, <2>1 DEF Passing
<1>11. QED
  BY <1>2, <1>9, <1>10 DEF made, chosen, res, again, S, U

--------------------------------------------------------------------------------
(* What every step keeps.                                                   *)

\* A plan is what the planner made of a policy result that allowed the call, which is
\* the engine's answer if the engine is built in.
Justified(c, pol, pl) ==
  pl # None =>
    /\ pol.allowed
    /\ pl = PlanFor(Normalized(c.envelope), pol, c.offers)
    /\ ~engine.injected => pol = EvaluateAll(Normalized(c.envelope), c.offers, engine)

\* An audit record says what became of a call.
Tells(record, pol, pl) ==
  /\ record.denial <=> pl = None
  /\ record.reason = pol.reason
  /\ record.policyAllowed <=> pol.allowed
  /\ pl # None =>
       /\ record.capability = pl.offer.cap.id
       /\ record.binding = pl.binding
       /\ record.outcome = "pending_approval" <=> pl.approvalRequired

\* What a call has in hand by the time it has reached its stage.
InHand(w) ==
  /\ stage[w] # "idle" => call[w] # None
  /\ stage[w] \in {"normalized", "validated", "allowed"} =>
       intent[w] = Normalized(call[w].envelope)
  /\ stage[w] = "allowed" =>
       /\ policy[w] # None /\ policy[w].allowed
       /\ ~engine.injected =>
            policy[w] = EvaluateAll(Normalized(call[w].envelope), call[w].offers, engine)
  /\ stage[w] \notin {"finished", "logged"} => plan[w] = None
  /\ stage[w] \in {"finished", "logged"} =>
       /\ policy[w] # None /\ audit[w] # None
       /\ audit[w].ticket = call[w].ticket
       /\ Justified(call[w], policy[w], plan[w])
       /\ Tells(audit[w], policy[w], plan[w])

\* A ticket belongs to one call, and is in the log from the moment the call is logged.
Ledger ==
  /\ \A w \in Workers : stage[w] # "idle" => call[w].ticket \in 1..calls
  /\ \A u, w \in Workers :
       stage[u] # "idle" /\ stage[w] # "idle" /\ call[u].ticket = call[w].ticket => u = w
  /\ \A i \in DOMAIN auditLog : auditLog[i].ticket \in 1..calls
  /\ \A i, j \in DOMAIN auditLog : auditLog[i].ticket = auditLog[j].ticket => i = j
  /\ \A w \in Workers : stage[w] \notin {"idle", "logged"} =>
       \A i \in DOMAIN auditLog : auditLog[i].ticket # call[w].ticket
  /\ \A w \in Workers : stage[w] = "logged" => \E i \in DOMAIN auditLog : auditLog[i] = audit[w]

\* A bundle is justified and told of by a record.
Founded(b) ==
  /\ b.denied <=> b.plan = None
  /\ Justified(b.call, b.policy, b.plan)
  /\ \E i \in DOMAIN auditLog :
       auditLog[i].ticket = b.call.ticket /\ Tells(auditLog[i], b.policy, b.plan)

CanonicalInv ==
  /\ TypeOK
  /\ \A w \in Workers : InHand(w)
  /\ Ledger
  /\ \A k \in DOMAIN returned : Founded(returned[k])

\* The records of a denial and of a plan.
DenialRecord(c, action, result) ==
  [ ticket |-> c.ticket, action |-> action, policyAllowed |-> FALSE, reason |-> result.reason,
    outcome |-> "denied", capability |-> None, binding |-> None, denial |-> TRUE ]

PlanRecord(c, pol, made) ==
  [ ticket |-> c.ticket,
    action |-> IF made.approvalRequired THEN "approval_requested" ELSE "plan_created",
    policyAllowed |-> TRUE, reason |-> pol.reason,
    outcome |-> IF made.approvalRequired THEN "pending_approval" ELSE "success",
    capability |-> made.offer.cap.id, binding |-> made.binding, denial |-> FALSE ]

LEMMA DenialRecordTells ==
  ASSUME NEW c \in Call, NEW action \in CanonicalActions, NEW result \in PolicyResult,
         ~result.allowed
  PROVE  LET record == DenialRecord(c, action, result)
         IN  /\ record \in AuditRecord /\ record # None
             /\ record.ticket = c.ticket
             /\ Tells(record, result, None)
<1> DEFINE record == DenialRecord(c, action, result)
<1>1. c.ticket \in Nat /\ result.reason \in ReasonCodes
  BY DEF Call, PolicyResult
<1>2. record \in AuditRecord
  BY <1>1 DEF DenialRecord, AuditRecord
<1>3. record # None
  BY <1>2, CanonicalAssumption
<1>4. record.ticket = c.ticket /\ Tells(record, result, None)
  BY DEF DenialRecord, Tells
<1>5. QED
  BY <1>2, <1>3, <1>4

LEMMA PlanRecordTells ==
  ASSUME NEW c \in Call, NEW pol \in PolicyResult, pol.allowed, NEW made \in CanonicalPlan
  PROVE  LET record == PlanRecord(c, pol, made)
         IN  /\ record \in AuditRecord /\ record # None
             /\ record.ticket = c.ticket
             /\ Tells(record, pol, made)
<1> DEFINE record == PlanRecord(c, pol, made)
<1>1. /\ c.ticket \in Nat /\ pol.reason \in ReasonCodes
      /\ made.offer.cap.id \in CapIds /\ made.binding \in BindingTypes
  BY DEF Call, PolicyResult, CanonicalPlan, Offer, CapabilityDescriptor
<1>2. /\ {"approval_requested", "plan_created"} \subseteq CanonicalActions
  BY DEF CanonicalActions, Actions, Outcomes
<1>3. record \in AuditRecord
  BY <1>1, <1>2 DEF PlanRecord, AuditRecord
<1>4. record # None /\ made # None
  BY <1>3, CanonicalAssumption
<1>5. record.ticket = c.ticket /\ Tells(record, pol, made)
  BY <1>4 DEF PlanRecord, Tells
<1>6. QED
  BY <1>3, <1>4, <1>5

LEMMA DenyWithType ==
  ASSUME NEW reason \in ReasonCodes
  PROVE  DenyWith(reason) \in PolicyResult /\ ~DenyWith(reason).allowed
BY DEF DenyWith, PolicyResult

LEMMA NormalizedType ==
  ASSUME NEW e \in IntentEnvelope
  PROVE  Normalized(e) \in NormalizedIntent
<1>1. /\ e.actor \in ActorDescriptor /\ e.sensitivity \in Sensitivities
      /\ e.prov \in ProvenanceBlock \cup {None} /\ e.bindings \in Seq(BindingTypes)
  BY DEF IntentEnvelope
<1>2. e.actor.trust \in TrustLevels /\ e.actor.scopes \in SUBSET Scopes
  BY <1>1 DEF ActorDescriptor
<1>3. PreferredBinding(e) \in BindingTypes \cup {None}
  BY <1>1 DEF PreferredBinding
<1>4. (IF e.prov = None THEN None ELSE e.prov.originator) \in Parties
  BY <1>1 DEF ProvenanceBlock, Parties
<1>5. (IF e.prov = None THEN 0 ELSE e.prov.depth) \in Nat
  BY <1>1 DEF ProvenanceBlock
<1>6. QED
  BY <1>1, <1>2, <1>3, <1>4, <1>5 DEF Normalized, NormalizedIntent

--------------------------------------------------------------------------------
(* The steps of a call.                                                     *)

Works(w) ==
  Normalize(w) \/ Validate(w) \/ Judge(w) \/ Plan(w) \/ AppendAudit(w) \/ Return(w)

\* Worker u's call is not touched.
Rests(u) ==
  /\ stage'[u] = stage[u] /\ call'[u] = call[u] /\ intent'[u] = intent[u]
  /\ policy'[u] = policy[u] /\ plan'[u] = plan[u] /\ audit'[u] = audit[u]

LEMMA OneCallMoves ==
  ASSUME TypeOK, [Next]_vars, NEW u \in Workers
  PROVE  \/ \E e \in Intents, named \in BOOLEAN, offers \in CandidateLists :
              Process(u, e, named, offers)
         \/ Works(u)
         \/ Rests(u)
<1> USE DEF TypeOK, Rests
<1>1. ASSUME NEW w \in Workers, w # u, NEW e, NEW named, NEW offers,
             Process(w, e, named, offers)
      PROVE  Rests(u)
  BY <1>1 DEF Process
<1>2. ASSUME NEW w \in Workers, w # u, Works(w) PROVE Rests(u)
  <2>1. CASE Normalize(w)
    BY <1>2, <2>1 DEF Normalize, Refuse
  <2>2. CASE Validate(w)
    BY <1>2, <2>2 DEF Validate, Refuse
  <2>3. CASE Judge(w)
    BY <1>2, <2>3 DEF Judge, Refuse
  <2>4. CASE Plan(w)
    BY <1>2, <2>4 DEF Plan, Refuse
  <2>5. CASE AppendAudit(w)
    BY <1>2, <2>5 DEF AppendAudit
  <2>6. CASE Return(w)
    BY <1>2, <2>6 DEF Return
  <2>7. QED
    BY <1>2, <2>1, <2>2, <2>3, <2>4, <2>5, <2>6 DEF Works
<1>3. CASE Tick
  BY <1>3 DEF Tick
<1>4. CASE UNCHANGED vars
  BY <1>4 DEF vars
<1>5. QED
  BY <1>1, <1>2, <1>3, <1>4 DEF Next, Works

\* A refusal finishes its call, with the record of the denial.
LEMMA RefusalFinishes ==
  ASSUME TypeOK, NEW w \in Workers, call[w] # None, NEW action \in CanonicalActions,
         NEW result \in PolicyResult, ~result.allowed, Refuse(w, action, result)
  PROVE  /\ stage' = [stage EXCEPT ![w] = "finished"]
         /\ policy' = [policy EXCEPT ![w] = result]
         /\ \E record \in AuditRecord :
              /\ record # None
              /\ audit' = [audit EXCEPT ![w] = record]
              /\ record.ticket = call[w].ticket
              /\ Tells(record, result, None)
<1>1. call[w] \in Call
  BY DEF TypeOK
<1>2. audit' = [audit EXCEPT ![w] = DenialRecord(call[w], action, result)]
  BY DEF Refuse, DenialRecord
<1>3. QED
  BY <1>1, <1>2, DenialRecordTells DEF Refuse

\* The engine's answer, and what follows from it.
LEMMA JudgeAnswers ==
  ASSUME CanonicalInv, NEW w \in Workers, Judge(w)
  PROVE  \E result \in PolicyResult :
           /\ ~engine.injected =>
                result = EvaluateAll(Normalized(call[w].envelope), call[w].offers, engine)
           /\ \/ /\ result.allowed
                 /\ policy' = [policy EXCEPT ![w] = result]
                 /\ stage' = [stage EXCEPT ![w] = "allowed"]
                 /\ audit' = audit
              \/ /\ ~result.allowed
                 /\ Refuse(w, "policy_denied", result)
<1>1. TypeOK /\ InHand(w) /\ stage[w] = "validated"
  BY DEF CanonicalInv, Judge
<1>2. call[w] \in Call /\ intent[w] = Normalized(call[w].envelope)
  BY <1>1 DEF TypeOK, InHand
<1>3. EvaluateAll(intent[w], call[w].offers, engine) \in PolicyResult
  <2>1. call[w].offers \in Seq(Offer)
    BY <1>2 DEF Call
  <2>2. QED
    BY <2>1, EvaluateAllAnswers
<1>4. PICK result \in (IF engine.injected THEN InjectedResults
                       ELSE {EvaluateAll(intent[w], call[w].offers, engine)}) :
        IF result.allowed
          THEN /\ policy' = [policy EXCEPT ![w] = result]
               /\ stage' = [stage EXCEPT ![w] = "allowed"]
               /\ UNCHANGED audit
          ELSE Refuse(w, "policy_denied", result)
  BY DEF Judge
<1>5. result \in PolicyResult
  BY <1>3, <1>4, CanonicalAssumption
<1>6. QED
  BY <1>2, <1>4, <1>5

\* What the planner makes of the engine's answer.
LEMMA PlanMakes ==
  ASSUME CanonicalInv, NEW w \in Workers, Plan(w)
  PROVE  \/ /\ Refuse(w, "plan_rejected", DenyWith("NO_ALLOWED_CAPABILITIES"))
            /\ plan' = plan
         \/ \E made \in CanonicalPlan, record \in AuditRecord :
              /\ made # None /\ record # None
              /\ plan' = [plan EXCEPT ![w] = made]
              /\ audit' = [audit EXCEPT ![w] = record]
              /\ stage' = [stage EXCEPT ![w] = "finished"]
              /\ policy' = policy
              /\ record.ticket = call[w].ticket
              /\ Justified(call[w], policy[w], made)
              /\ Tells(record, policy[w], made)
<1>1. TypeOK /\ InHand(w) /\ stage[w] = "allowed"
  BY DEF CanonicalInv, Plan
<1>2. /\ call[w] \in Call /\ intent[w] = Normalized(call[w].envelope)
      /\ policy[w] \in PolicyResult /\ policy[w].allowed
      /\ ~engine.injected =>
           policy[w] = EvaluateAll(Normalized(call[w].envelope), call[w].offers, engine)
  BY <1>1 DEF TypeOK, InHand
<1>3. call[w].offers \in Seq(Offer) /\ intent[w] \in NormalizedIntent
  BY <1>2, NormalizedType DEF Call
<1> DEFINE made == PlanFor(intent[w], policy[w], call[w].offers)
<1>4. CASE made = None
  BY <1>4 DEF Plan
<1>5. CASE made # None
  <2>1. made \in CanonicalPlan
    BY <1>2, <1>3, <1>5, PlanIsAllowed
  <2>2. /\ plan' = [plan EXCEPT ![w] = made]
        /\ audit' = [audit EXCEPT ![w] = PlanRecord(call[w], policy[w], made)]
        /\ stage' = [stage EXCEPT ![w] = "finished"]
        /\ policy' = policy
    BY <1>5 DEF Plan, PlanRecord
  <2>3. Justified(call[w], policy[w], made)
    BY <1>2 DEF Justified
  <2> HIDE DEF made
  <2>4. QED
    BY <1>2, <1>5, <2>1, <2>2, <2>3, PlanRecordTells
<1>6. QED
  BY <1>4, <1>5

LEMMA RefusalType ==
  ASSUME TypeOK, NEW w \in Workers, call[w] # None, NEW action \in CanonicalActions,
         NEW result \in PolicyResult, ~result.allowed, Refuse(w, action, result)
  PROVE  /\ stage' \in [Workers -> Stages]
         /\ policy' \in [Workers -> PolicyResult \cup {None}]
         /\ audit' \in [Workers -> AuditRecord \cup {None}]
<1>1. PICK record \in AuditRecord : audit' = [audit EXCEPT ![w] = record]
  BY RefusalFinishes
<1>2. /\ stage' = [stage EXCEPT ![w] = "finished"]
      /\ policy' = [policy EXCEPT ![w] = result]
  BY RefusalFinishes
<1>3. QED
  BY <1>1, <1>2 DEF TypeOK, Stages

LEMMA CanonicalInit == Init => CanonicalInv
<1> SUFFICES ASSUME Init PROVE CanonicalInv
  OBVIOUS
<1>1. TypeOK
  BY CanonicalAssumption DEF Init, TypeOK, Stages
<1>2. \A w \in Workers : InHand(w)
  BY DEF Init, InHand
<1>3. Ledger
  BY DEF Init, Ledger
<1>4. QED
  BY <1>1, <1>2, <1>3 DEF Init, CanonicalInv

LEMMA CanonicalType == CanonicalInv /\ [Next]_vars => TypeOK'
<1> SUFFICES ASSUME CanonicalInv, [Next]_vars PROVE TypeOK'
  OBVIOUS
<1>0. TypeOK /\ Ledger /\ \A w \in Workers : InHand(w)
  BY DEF CanonicalInv
<1>1. /\ {"validation_failed", "policy_denied", "plan_rejected"} \subseteq CanonicalActions
      /\ {"EVALUATION_ERROR", "NO_ALLOWED_CAPABILITIES"} \subseteq ReasonCodes
  BY DEF CanonicalActions, Actions, Outcomes, ReasonCodes
<1>2. CASE Tick
  BY <1>0, <1>2, CanonicalAssumption DEF Tick, TypeOK
<1>3. ASSUME NEW w \in Workers, NEW e \in Intents, NEW named \in BOOLEAN,
             NEW offers \in CandidateLists, Process(w, e, named, offers)
      PROVE  TypeOK'
  <2>1. calls \in Nat /\ calls' = calls + 1 /\ calls' \in 0..MaxCalls
    BY <1>0, <1>3, CanonicalAssumption DEF Process, TypeOK
  <2>2. [ticket |-> calls + 1, envelope |-> e, named |-> named, offers |-> offers] \in Call
    BY <2>1, CanonicalAssumption DEF Call
  <2>3. /\ stage' = [stage EXCEPT ![w] = "ingested"]
        /\ call' = [call EXCEPT ![w] =
             [ticket |-> calls + 1, envelope |-> e, named |-> named, offers |-> offers]]
        /\ UNCHANGED <<engine, clock, intent, policy, plan, audit, auditLog, returned, raised>>
    BY <1>3 DEF Process
  <2>4. stage' \in [Workers -> Stages] /\ call' \in [Workers -> Call \cup {None}]
    BY <1>0, <2>2, <2>3 DEF TypeOK, Stages
  <2>5. raised' \subseteq 1..calls'
    BY <1>0, <2>1, <2>3 DEF TypeOK
  <2>6. QED
    BY <1>0, <2>1, <2>3, <2>4, <2>5 DEF TypeOK
<1>4. ASSUME NEW w \in Workers, Normalize(w) PROVE TypeOK'
  <2>1. UNCHANGED <<engine, clock, calls, call, plan, auditLog, returned, raised>>
    BY <1>4 DEF Normalize
  <2>2. call[w] # None /\ call[w] \in Call
    BY <1>0, <1>4 DEF Normalize, InHand, TypeOK
  <2>3. CASE call[w].named
    <3>1. Normalized(call[w].envelope) \in NormalizedIntent
      BY <2>2, NormalizedType DEF Call
    <3>2. /\ intent' = [intent EXCEPT ![w] = Normalized(call[w].envelope)]
          /\ stage' = [stage EXCEPT ![w] = "normalized"]
          /\ UNCHANGED <<policy, audit>>
      BY <1>4, <2>3 DEF Normalize
    <3>3. QED
      BY <1>0, <2>1, <3>1, <3>2 DEF TypeOK, Stages
  <2>4. CASE ~call[w].named
    <3>1. Refuse(w, "validation_failed", DenyWith("EVALUATION_ERROR")) /\ intent' = intent
      BY <1>4, <2>4 DEF Normalize
    <3>2. /\ stage' \in [Workers -> Stages]
          /\ policy' \in [Workers -> PolicyResult \cup {None}]
          /\ audit' \in [Workers -> AuditRecord \cup {None}]
      BY <1>0, <1>1, <2>2, <3>1, DenyWithType, RefusalType
    <3>3. QED
      BY <1>0, <2>1, <3>1, <3>2 DEF TypeOK
  <2>5. QED
    BY <2>3, <2>4
<1>5. ASSUME NEW w \in Workers, Validate(w) PROVE TypeOK'
  <2>1. UNCHANGED <<engine, clock, calls, call, intent, plan, auditLog, returned, raised>>
    BY <1>5 DEF Validate
  <2>2. CASE stage' = [stage EXCEPT ![w] = "validated"] /\ UNCHANGED <<policy, audit>>
    BY <1>0, <2>1, <2>2 DEF TypeOK, Stages
  <2>3. CASE Refuse(w, "validation_failed", DenyWith("EVALUATION_ERROR"))
    <3>1. call[w] # None
      BY <1>0, <1>5 DEF Validate, InHand
    <3>2. /\ stage' \in [Workers -> Stages]
          /\ policy' \in [Workers -> PolicyResult \cup {None}]
          /\ audit' \in [Workers -> AuditRecord \cup {None}]
      BY <1>0, <1>1, <2>3, <3>1, DenyWithType, RefusalType
    <3>3. QED
      BY <1>0, <2>1, <3>2 DEF TypeOK
  <2>4. QED
    BY <1>5, <2>2, <2>3 DEF Validate
<1>6. ASSUME NEW w \in Workers, Judge(w) PROVE TypeOK'
  <2>1. UNCHANGED <<engine, clock, calls, call, intent, plan, auditLog, returned, raised>>
    BY <1>6 DEF Judge
  <2>2. call[w] # None
    BY <1>0, <1>6 DEF Judge, InHand
  <2>3. PICK result \in PolicyResult :
          \/ /\ policy' = [policy EXCEPT ![w] = result]
             /\ stage' = [stage EXCEPT ![w] = "allowed"]
             /\ audit' = audit
          \/ /\ ~result.allowed
             /\ Refuse(w, "policy_denied", result)
    BY <1>6, JudgeAnswers
  <2>4. /\ stage' \in [Workers -> Stages]
        /\ policy' \in [Workers -> PolicyResult \cup {None}]
        /\ audit' \in [Workers -> AuditRecord \cup {None}]
    <3>1. CASE policy' = [policy EXCEPT ![w] = result] /\ audit' = audit
               /\ stage' = [stage EXCEPT ![w] = "allowed"]
      BY <1>0, <3>1 DEF TypeOK, Stages
    <3>2. CASE ~result.allowed /\ Refuse(w, "policy_denied", result)
      BY <1>0, <1>1, <2>2, <3>2, RefusalType
    <3>3. QED
      BY <2>3, <3>1, <3>2
  <2>5. QED
    BY <1>0, <2>1, <2>4 DEF TypeOK
<1>7. ASSUME NEW w \in Workers, Plan(w) PROVE TypeOK'
  <2>1. UNCHANGED <<engine, clock, calls, call, intent, auditLog, returned, raised>>
    BY <1>7 DEF Plan
  <2>2. CASE Refuse(w, "plan_rejected", DenyWith("NO_ALLOWED_CAPABILITIES")) /\ plan' = plan
    <3>1. call[w] # None
      BY <1>0, <1>7 DEF Plan, InHand
    <3>2. /\ stage' \in [Workers -> Stages]
          /\ policy' \in [Workers -> PolicyResult \cup {None}]
          /\ audit' \in [Workers -> AuditRecord \cup {None}]
      BY <1>0, <1>1, <2>2, <3>1, DenyWithType, RefusalType
    <3>3. QED
      BY <1>0, <2>1, <2>2, <3>2 DEF TypeOK
  <2>3. ASSUME NEW made \in CanonicalPlan, NEW record \in AuditRecord,
               plan' = [plan EXCEPT ![w] = made], audit' = [audit EXCEPT ![w] = record],
               stage' = [stage EXCEPT ![w] = "finished"], policy' = policy
        PROVE  TypeOK'
    BY <1>0, <2>1, <2>3 DEF TypeOK, Stages
  <2>4. QED
    BY <1>7, <2>2, <2>3, PlanMakes
<1>8. ASSUME NEW w \in Workers, AppendAudit(w) PROVE TypeOK'
  <2>1. /\ UNCHANGED <<engine, clock, calls, call, intent, policy, plan, audit, returned, raised>>
        /\ stage' = [stage EXCEPT ![w] = "logged"] /\ auditLog' = Append(auditLog, audit[w])
    BY <1>8 DEF AppendAudit
  <2>2. audit[w] \in AuditRecord
    BY <1>0, <1>8 DEF AppendAudit, InHand, TypeOK
  <2>3. QED
    BY <1>0, <2>1, <2>2 DEF TypeOK, Stages
<1>9. ASSUME NEW w \in Workers, Return(w) PROVE TypeOK'
  <2>1. /\ UNCHANGED <<engine, clock, calls, auditLog>>
        /\ stage' = [stage EXCEPT ![w] = "idle"] /\ call' = [call EXCEPT ![w] = None]
        /\ intent' = [intent EXCEPT ![w] = None] /\ policy' = [policy EXCEPT ![w] = None]
        /\ plan' = [plan EXCEPT ![w] = None] /\ audit' = [audit EXCEPT ![w] = None]
    BY <1>9 DEF Return
  <2>2. /\ call[w] \in Call /\ call[w].ticket \in 1..calls
        /\ policy[w] \in PolicyResult /\ audit[w] \in AuditRecord
        /\ plan[w] \in CanonicalPlan \cup {None}
    BY <1>0, <1>9 DEF Return, InHand, Ledger, TypeOK
  <2>3. [call |-> call[w], policy |-> policy[w], plan |-> plan[w], denied |-> audit[w].denial]
          \in DecisionBundle
    <3>1. audit[w].denial \in BOOLEAN
      BY <2>2 DEF AuditRecord
    <3>2. QED
      BY <2>2, <3>1 DEF DecisionBundle
  <2>4. returned' \in Seq(DecisionBundle) /\ raised' \subseteq 1..calls
    <3> DEFINE bundle == [ call |-> call[w], policy |-> policy[w], plan |-> plan[w],
                           denied |-> audit[w].denial ]
    <3>1. /\ returned' = returned \/ returned' = Append(returned, bundle)
          /\ raised' = raised \/ raised' = raised \cup {call[w].ticket}
      BY <1>9 DEF Return
    <3>2. returned \in Seq(DecisionBundle) /\ raised \subseteq 1..calls
      BY <1>0 DEF TypeOK
    <3>3. bundle \in DecisionBundle
      BY <2>3
    <3> HIDE DEF bundle
    <3>4. returned' \in Seq(DecisionBundle)
      BY <3>1, <3>2, <3>3
    <3>5. raised' \subseteq 1..calls
      BY <2>2, <3>1, <3>2
    <3>6. QED
      BY <3>4, <3>5
  <2>5. stage' \in [Workers -> Stages]
    BY <1>0, <2>1 DEF TypeOK, Stages
  <2>6. QED
    BY <1>0, <2>1, <2>4, <2>5 DEF TypeOK
<1>10. CASE UNCHANGED vars
  BY <1>0, <1>10 DEF vars, TypeOK
<1>11. QED
  BY <1>2, <1>3, <1>4, <1>5, <1>6, <1>7, <1>8, <1>9, <1>10 DEF Next

LEMMA InHandNext ==
  ASSUME CanonicalInv, [Next]_vars, NEW u \in Workers
  PROVE  InHand(u)'
<1>0. TypeOK /\ Ledger /\ InHand(u)
  BY DEF CanonicalInv
<1>1. engine' = engine
  BY DEF Next, Tick, Process, Normalize, Validate, Judge, Plan, AppendAudit, Return, vars
<1>2. {"validation_failed", "policy_denied", "plan_rejected"} \subseteq CanonicalActions
      /\ {"EVALUATION_ERROR", "NO_ALLOWED_CAPABILITIES"} \subseteq ReasonCodes
  BY DEF CanonicalActions, Actions, Outcomes, ReasonCodes
<1>3. CASE Rests(u)
  BY <1>0, <1>1, <1>3 DEF Rests, InHand, Justified
<1>4. ASSUME NEW e \in Intents, NEW named \in BOOLEAN, NEW offers \in CandidateLists,
             Process(u, e, named, offers)
      PROVE  InHand(u)'
  <2>1. /\ stage'[u] = "ingested" /\ plan'[u] = plan[u]
        /\ call'[u] =
             [ticket |-> calls + 1, envelope |-> e, named |-> named, offers |-> offers]
    BY <1>0, <1>4 DEF Process, TypeOK
  <2>2. call'[u] \in Call
    BY <1>0, <2>1, CanonicalAssumption DEF Call, TypeOK
  <2>3. call'[u] # None /\ plan[u] = None
    BY <1>0, <1>4, <2>2, CanonicalAssumption DEF Process, InHand
  <2>4. QED
    BY <2>1, <2>3 DEF InHand
<1>5. ASSUME NEW action \in CanonicalActions, NEW result \in PolicyResult, ~result.allowed,
             Refuse(u, action, result), call' = call, plan' = plan, call[u] # None,
             stage[u] \notin {"finished", "logged"}
      PROVE  InHand(u)'
  <2>1. PICK record \in AuditRecord :
          /\ record # None
          /\ audit' = [audit EXCEPT ![u] = record]
          /\ record.ticket = call[u].ticket
          /\ Tells(record, result, None)
    BY <1>0, <1>5, RefusalFinishes
  <2>2. stage'[u] = "finished" /\ policy'[u] = result /\ audit'[u] = record
    BY <1>0, <1>5, <2>1, RefusalFinishes DEF TypeOK
  <2>3. result # None /\ plan'[u] = None /\ call'[u] = call[u]
    BY <1>0, <1>5, CanonicalAssumption DEF InHand
  <2>4. Tells(audit[u], policy[u], plan[u])'
    BY <2>1, <2>2, <2>3 DEF Tells
  <2>5. Justified(call[u], policy[u], plan[u])'
    BY <2>3 DEF Justified
  <2>6. /\ call'[u] # None /\ policy'[u] # None /\ audit'[u] # None
        /\ audit'[u].ticket = call'[u].ticket
    BY <1>5, <2>1, <2>2, <2>3
  <2>7. QED
    BY <2>2, <2>4, <2>5, <2>6 DEF InHand
<1>6. CASE Normalize(u)
  <2>1. call' = call /\ plan' = plan /\ call[u] # None /\ stage[u] = "ingested"
    BY <1>0, <1>6 DEF Normalize, InHand
  <2>2. CASE call[u].named
    <3>1. intent'[u] = Normalized(call[u].envelope) /\ stage'[u] = "normalized"
      BY <1>0, <1>6, <2>2 DEF Normalize, TypeOK
    <3>2. QED
      BY <1>0, <2>1, <3>1 DEF InHand
  <2>3. CASE ~call[u].named
    BY <1>2, <1>5, <1>6, <2>1, <2>3, DenyWithType DEF Normalize
  <2>4. QED
    BY <2>2, <2>3
<1>7. CASE Validate(u)
  <2>1. /\ call' = call /\ plan' = plan /\ intent' = intent
        /\ call[u] # None /\ stage[u] = "normalized"
    BY <1>0, <1>7 DEF Validate, InHand
  <2>2. CASE stage' = [stage EXCEPT ![u] = "validated"]
    BY <1>0, <2>1, <2>2 DEF InHand, TypeOK
  <2>3. CASE Refuse(u, "validation_failed", DenyWith("EVALUATION_ERROR"))
    BY <1>2, <1>5, <2>1, <2>3, DenyWithType
  <2>4. QED
    BY <1>7, <2>2, <2>3 DEF Validate
<1>8. CASE Judge(u)
  <2>1. /\ call' = call /\ plan' = plan /\ intent' = intent
        /\ call[u] # None /\ stage[u] = "validated"
    BY <1>0, <1>8 DEF Judge, InHand
  <2>2. PICK result \in PolicyResult :
          /\ ~engine.injected =>
               result = EvaluateAll(Normalized(call[u].envelope), call[u].offers, engine)
          /\ \/ /\ result.allowed
                /\ policy' = [policy EXCEPT ![u] = result]
                /\ stage' = [stage EXCEPT ![u] = "allowed"]
                /\ audit' = audit
             \/ /\ ~result.allowed
                /\ Refuse(u, "policy_denied", result)
    BY <1>8, JudgeAnswers
  <2>3. CASE /\ result.allowed
             /\ policy' = [policy EXCEPT ![u] = result]
             /\ stage' = [stage EXCEPT ![u] = "allowed"]
    <3>1. policy'[u] = result /\ stage'[u] = "allowed" /\ result # None
      BY <1>0, <2>3, CanonicalAssumption DEF TypeOK
    <3>2. QED
      BY <1>0, <1>1, <2>1, <2>2, <2>3, <3>1 DEF InHand
  <2>4. CASE ~result.allowed /\ Refuse(u, "policy_denied", result)
    BY <1>2, <1>5, <2>1, <2>4
  <2>5. QED
    BY <2>2, <2>3, <2>4
<1>9. CASE Plan(u)
  <2>1. /\ call' = call /\ intent' = intent
        /\ call[u] # None /\ stage[u] = "allowed" /\ policy[u] # None
    BY <1>0, <1>9 DEF Plan, InHand
  <2>2. CASE Refuse(u, "plan_rejected", DenyWith("NO_ALLOWED_CAPABILITIES")) /\ plan' = plan
    BY <1>2, <1>5, <2>1, <2>2, DenyWithType
  <2>3. ASSUME NEW made \in CanonicalPlan, NEW record \in AuditRecord,
               made # None, record # None,
               plan' = [plan EXCEPT ![u] = made], audit' = [audit EXCEPT ![u] = record],
               stage' = [stage EXCEPT ![u] = "finished"], policy' = policy,
               record.ticket = call[u].ticket,
               Justified(call[u], policy[u], made), Tells(record, policy[u], made)
        PROVE  InHand(u)'
    <3>1. stage'[u] = "finished" /\ plan'[u] = made /\ audit'[u] = record
      BY <1>0, <2>3 DEF TypeOK
    <3>2. Tells(audit[u], policy[u], plan[u])'
      BY <2>3, <3>1 DEF Tells
    <3>3. Justified(call[u], policy[u], plan[u])'
      BY <1>1, <2>1, <2>3, <3>1 DEF Justified
    <3>4. QED
      BY <2>1, <2>3, <3>1, <3>2, <3>3 DEF InHand
  <2>4. QED
    BY <1>9, <2>2, <2>3, PlanMakes
<1>10. CASE AppendAudit(u)
  <2>1. /\ UNCHANGED <<call, intent, policy, plan, audit>>
        /\ stage[u] = "finished" /\ stage'[u] = "logged"
    BY <1>0, <1>10 DEF AppendAudit, TypeOK
  <2>2. QED
    BY <1>0, <1>1, <2>1 DEF InHand, Justified
<1>11. CASE Return(u)
  <2>1. stage'[u] = "idle" /\ plan'[u] = None
    BY <1>0, <1>11 DEF Return, TypeOK
  <2>2. QED
    BY <2>1 DEF InHand
<1>12. QED
  BY <1>0, <1>3, <1>4, <1>6, <1>7, <1>8, <1>9, <1>10, <1>11, OneCallMoves DEF Works

\* The stages before the log leave log, bundles and tickets alone.
LEMMA EarlyStages ==
  ASSUME TypeOK, NEW w \in Workers, Normalize(w) \/ Validate(w) \/ Judge(w) \/ Plan(w)
  PROVE  /\ UNCHANGED <<engine, calls, call, auditLog, returned>>
         /\ stage[w] \notin {"idle", "finished", "logged"}
         /\ stage'[w] \notin {"idle", "logged"}
         /\ \A u \in Workers : u # w => stage'[u] = stage[u] /\ audit'[u] = audit[u]
<1>1. CASE Normalize(w)
  BY <1>1 DEF Normalize, Refuse, TypeOK
<1>2. CASE Validate(w)
  BY <1>2 DEF Validate, Refuse, TypeOK
<1>3. CASE Judge(w)
  BY <1>3 DEF Judge, Refuse, TypeOK
<1>4. CASE Plan(w)
  BY <1>4 DEF Plan, Refuse, TypeOK
<1>5. QED
  BY <1>1, <1>2, <1>3, <1>4

LEMMA LedgerNext == CanonicalInv /\ [Next]_vars => Ledger'
<1> SUFFICES ASSUME CanonicalInv, [Next]_vars PROVE Ledger'
  OBVIOUS
<1>0. TypeOK /\ Ledger /\ calls \in Nat /\ \A w \in Workers : InHand(w)
  BY CanonicalAssumption DEF CanonicalInv, TypeOK
<1>1. ASSUME UNCHANGED <<calls, call, stage, audit, auditLog>> PROVE Ledger'
  BY <1>0, <1>1 DEF Ledger
<1>2. ASSUME NEW w \in Workers, NEW e \in Intents, NEW named \in BOOLEAN,
             NEW offers \in CandidateLists, Process(w, e, named, offers)
      PROVE  Ledger'
  <2>1. /\ calls' = calls + 1 /\ auditLog' = auditLog /\ audit' = audit
        /\ stage'[w] = "ingested" /\ call'[w].ticket = calls + 1
        /\ \A u \in Workers : u # w => stage'[u] = stage[u] /\ call'[u] = call[u]
    BY <1>0, <1>2 DEF Process, TypeOK
  <2>2. \A u \in Workers : stage[u] # "idle" => call[u].ticket \in Nat /\ call[u].ticket <= calls
    BY <1>0 DEF Ledger
  <2>3. \A i \in DOMAIN auditLog : auditLog[i].ticket \in Nat /\ auditLog[i].ticket <= calls
    BY <1>0 DEF Ledger
  <2>4. \A u \in Workers : stage'[u] # "idle" => call'[u].ticket \in 1..calls'
    BY <1>0, <2>1, <2>2 DEF Ledger
  <2>5. \A u, v \in Workers :
          stage'[u] # "idle" /\ stage'[v] # "idle" /\ call'[u].ticket = call'[v].ticket => u = v
    BY <1>0, <2>1, <2>2 DEF Ledger
  <2>6. \A i \in DOMAIN auditLog' : auditLog'[i].ticket \in 1..calls'
    BY <1>0, <2>1 DEF Ledger
  <2>7. \A u \in Workers : stage'[u] \notin {"idle", "logged"} =>
          \A i \in DOMAIN auditLog' : auditLog'[i].ticket # call'[u].ticket
    BY <1>0, <2>1, <2>3 DEF Ledger
  <2>8. \A u \in Workers : stage'[u] = "logged" =>
          \E i \in DOMAIN auditLog' : auditLog'[i] = audit'[u]
    BY <1>0, <2>1 DEF Ledger
  <2>9. QED
    BY <1>0, <2>1, <2>4, <2>5, <2>6, <2>7, <2>8 DEF Ledger
<1>3. ASSUME NEW w \in Workers, Normalize(w) \/ Validate(w) \/ Judge(w) \/ Plan(w)
      PROVE  Ledger'
  <2>1. /\ UNCHANGED <<calls, call, auditLog>>
        /\ stage[w] \notin {"idle", "finished", "logged"}
        /\ stage'[w] \notin {"idle", "logged"}
        /\ \A u \in Workers : u # w => stage'[u] = stage[u] /\ audit'[u] = audit[u]
    BY <1>0, <1>3, EarlyStages
  <2>2. \A u \in Workers :
          /\ stage'[u] # "idle" <=> stage[u] # "idle"
          /\ stage'[u] \notin {"idle", "logged"} <=> stage[u] \notin {"idle", "logged"}
          /\ stage'[u] = "logged" => stage[u] = "logged" /\ audit'[u] = audit[u]
    BY <2>1
  <2>3. QED
    BY <1>0, <2>1, <2>2 DEF Ledger
<1>4. ASSUME NEW w \in Workers, AppendAudit(w) PROVE Ledger'
  <2>1. /\ stage[w] = "finished" /\ stage'[w] = "logged"
        /\ \A u \in Workers : u # w => stage'[u] = stage[u]
        /\ UNCHANGED <<calls, call, audit>>
    BY <1>0, <1>4 DEF AppendAudit, TypeOK
  <2>2. audit[w] \in AuditRecord /\ audit[w].ticket = call[w].ticket
    BY <1>0, <2>1 DEF InHand, TypeOK
  <2>3. /\ DOMAIN auditLog' = DOMAIN auditLog \cup {Len(auditLog) + 1}
        /\ Len(auditLog) + 1 \notin DOMAIN auditLog
        /\ \A i \in DOMAIN auditLog : auditLog'[i] = auditLog[i]
        /\ auditLog'[Len(auditLog) + 1] = audit[w]
    <3>1. auditLog' = Append(auditLog, audit[w]) /\ auditLog \in Seq(AuditRecord)
      BY <1>0, <1>4 DEF AppendAudit, TypeOK
    <3>2. QED
      BY <2>2, <3>1
  <2> DEFINE last == Len(auditLog) + 1
  <2> HIDE DEF last
  <2>4. \A i \in DOMAIN auditLog : auditLog[i].ticket # call[w].ticket
    BY <1>0, <2>1 DEF Ledger
  <2>5. \A u \in Workers : u # w /\ stage[u] # "idle" => call[u].ticket # call[w].ticket
    BY <1>0, <2>1 DEF Ledger
  <2>6. call[w].ticket \in 1..calls
    BY <1>0, <2>1 DEF Ledger
  <2>7. \A i \in DOMAIN auditLog' : auditLog'[i].ticket \in 1..calls
    BY <1>0, <2>2, <2>3, <2>6 DEF Ledger, last
  <2>8. \A i, j \in DOMAIN auditLog' : auditLog'[i].ticket = auditLog'[j].ticket => i = j
    BY <1>0, <2>2, <2>3, <2>4 DEF Ledger, last
  <2>9. \A u \in Workers : stage'[u] \notin {"idle", "logged"} =>
          \A i \in DOMAIN auditLog' : auditLog'[i].ticket # call[u].ticket
    BY <1>0, <2>1, <2>2, <2>3, <2>5 DEF Ledger, last
  <2>10. \A u \in Workers : stage'[u] = "logged" =>
           \E i \in DOMAIN auditLog' : auditLog'[i] = audit[u]
    <3> SUFFICES ASSUME NEW u \in Workers, stage'[u] = "logged"
                 PROVE  \E i \in DOMAIN auditLog' : auditLog'[i] = audit[u]
      OBVIOUS
    <3>1. CASE u = w
      BY <2>3, <3>1 DEF last
    <3>2. CASE u # w
      BY <1>0, <2>1, <2>3, <3>2 DEF Ledger
    <3>3. QED
      BY <3>1, <3>2
  <2>11. \A u \in Workers : stage'[u] # "idle" <=> stage[u] # "idle"
    BY <2>1
  <2>12. QED
    BY <1>0, <2>1, <2>7, <2>8, <2>9, <2>10, <2>11 DEF Ledger
<1>5. ASSUME NEW w \in Workers, Return(w) PROVE Ledger'
  <2>1. /\ UNCHANGED <<calls, auditLog>> /\ stage'[w] = "idle"
        /\ \A u \in Workers : u # w =>
             stage'[u] = stage[u] /\ call'[u] = call[u] /\ audit'[u] = audit[u]
    BY <1>0, <1>5 DEF Return, TypeOK
  <2>2. \A u \in Workers : stage'[u] # "idle" =>
          stage'[u] = stage[u] /\ call'[u] = call[u] /\ audit'[u] = audit[u]
    BY <2>1
  <2>3. QED
    BY <1>0, <2>1, <2>2 DEF Ledger
<1>6. CASE Tick
  BY <1>1, <1>6 DEF Tick
<1>7. CASE UNCHANGED vars
  BY <1>1, <1>7 DEF vars
<1>8. QED
  BY <1>2, <1>3, <1>4, <1>5, <1>6, <1>7 DEF Next

LEMMA FoundedNext ==
  CanonicalInv /\ [Next]_vars => (\A k \in DOMAIN returned : Founded(returned[k]))'
<1> SUFFICES ASSUME CanonicalInv, [Next]_vars
             PROVE  (\A k \in DOMAIN returned : Founded(returned[k]))'
  OBVIOUS
<1>0. TypeOK /\ Ledger /\ \A w \in Workers : InHand(w)
  BY DEF CanonicalInv
<1>1. engine' = engine
  BY DEF Next, Tick, Process, Normalize, Validate, Judge, Plan, AppendAudit, Return, vars
<1>2. \A i \in DOMAIN auditLog : i \in DOMAIN auditLog' /\ auditLog'[i] = auditLog[i]
  <2>1. ASSUME NEW w \in Workers, AppendAudit(w)
        PROVE  \A i \in DOMAIN auditLog : i \in DOMAIN auditLog' /\ auditLog'[i] = auditLog[i]
    <3>1. auditLog \in Seq(AuditRecord) /\ audit[w] \in AuditRecord
      BY <1>0, <2>1 DEF AppendAudit, InHand, TypeOK
    <3>2. auditLog' = Append(auditLog, audit[w])
      BY <2>1 DEF AppendAudit
    <3>3. QED
      BY <3>1, <3>2
  <2>2. (\A w \in Workers : ~AppendAudit(w)) => auditLog' = auditLog
    BY DEF Next, Tick, Process, Normalize, Validate, Judge, Plan, Return, vars
  <2>3. QED
    BY <2>1, <2>2
<1>3. ASSUME NEW w \in Workers, Return(w), call[w].named
      PROVE  (\A k \in DOMAIN returned : Founded(returned[k]))'
  <2> DEFINE bundle == [ call |-> call[w], policy |-> policy[w], plan |-> plan[w],
                         denied |-> audit[w].denial ]
  <2>1. returned' = Append(returned, bundle) /\ auditLog' = auditLog
    BY <1>3 DEF Return
  <2>2. /\ stage[w] = "logged" /\ audit[w].ticket = call[w].ticket
        /\ Justified(call[w], policy[w], plan[w]) /\ Tells(audit[w], policy[w], plan[w])
    BY <1>0, <1>3 DEF Return, InHand
  <2>3. PICK i \in DOMAIN auditLog : auditLog[i] = audit[w]
    BY <1>0, <2>2 DEF Ledger
  <2>4. /\ bundle.call = call[w] /\ bundle.policy = policy[w] /\ bundle.plan = plan[w]
        /\ bundle.denied <=> audit[w].denial
    OBVIOUS
  <2>5. audit[w].denial <=> plan[w] = None
    BY <2>2 DEF Tells
  <2> HIDE DEF bundle
  <2>6. Founded(bundle)
    BY <2>2, <2>3, <2>4, <2>5 DEF Founded
  <2>7. /\ DOMAIN returned' = DOMAIN returned \cup {Len(returned) + 1}
        /\ \A k \in DOMAIN returned : returned'[k] = returned[k]
        /\ returned'[Len(returned) + 1] = bundle
    <3>1. returned \in Seq(DecisionBundle)
      BY <1>0 DEF TypeOK
    <3>2. QED
      BY <2>1, <3>1
  <2>8. ASSUME NEW k \in DOMAIN returned' PROVE Founded(returned'[k])
    BY <2>6, <2>7 DEF CanonicalInv
  <2>9. QED
    BY <1>1, <2>1, <2>8 DEF Founded, Justified
<1>4. ASSUME returned' = returned
      PROVE  (\A k \in DOMAIN returned : Founded(returned[k]))'
  <2>1. ASSUME NEW k \in DOMAIN returned PROVE Founded(returned[k])'
    <3>1. Founded(returned[k])
      BY DEF CanonicalInv
    <3>2. QED
      BY <1>1, <1>2, <1>4, <3>1 DEF Founded, Justified
  <2>2. QED
    BY <1>4, <2>1
<1>5. \/ returned' = returned
      \/ \E w \in Workers : Return(w) /\ call[w].named
  BY DEF Next, Tick, Process, Normalize, Validate, Judge, Plan, AppendAudit, Return, vars
<1>6. QED
  BY <1>3, <1>4, <1>5

LEMMA CanonicalInvHolds == Spec => []CanonicalInv
<1>1. CanonicalInv /\ [Next]_vars => CanonicalInv'
  <2> SUFFICES ASSUME CanonicalInv, [Next]_vars PROVE CanonicalInv'
    OBVIOUS
  <2>1. (\A w \in Workers : InHand(w))'
    BY InHandNext
  <2>2. QED
    BY <2>1, CanonicalType, LedgerNext, FoundedNext DEF CanonicalInv
<1>2. QED
  BY <1>1, CanonicalInit, PTL DEF Spec

--------------------------------------------------------------------------------
(* The properties.                                                          *)

\* Every variable of the canonical pipeline keeps its type, and a call that ended in an
\* exception was one of the calls.
THEOREM CanonicalTypeCorrect == Spec => []TypeOK
<1>1. CanonicalInv => TypeOK
  BY DEF CanonicalInv
<1>2. QED
  BY <1>1, CanonicalInvHolds, PTL

\* What is known of a bundle and of the plan in it.
LEMMA BundleFounded ==
  ASSUME CanonicalInv, NEW b \in Bundles
  PROVE  /\ Founded(b) /\ b \in DecisionBundle
         /\ b.call \in Call /\ b.policy \in PolicyResult
         /\ b.call.envelope \in IntentEnvelope /\ b.call.offers \in Seq(Offer)
         /\ Normalized(b.call.envelope) \in NormalizedIntent
<1>1. PICK k \in DOMAIN returned : b = returned[k]
  BY DEF Bundles, Elements
<1>2. Founded(b) /\ b \in DecisionBundle
  BY <1>1 DEF CanonicalInv, TypeOK
<1>3. b.call \in Call /\ b.policy \in PolicyResult
  BY <1>2 DEF DecisionBundle
<1>4. b.call.envelope \in IntentEnvelope /\ b.call.offers \in Seq(Offer)
  BY <1>3 DEF Call
<1>5. QED
  BY <1>2, <1>3, <1>4, NormalizedType

\* Whatever engine is injected, a plan exists only with its consent, and a bundle
\* without a plan is a denial.
THEOREM PlansNeedConsent == Spec => []FailsClosed
<1>1. CanonicalInv => FailsClosed
  <2> SUFFICES ASSUME CanonicalInv, NEW b \in Bundles
               PROVE  /\ b.denied <=> b.plan = None
                      /\ b.plan # None =>
                           /\ b.policy.allowed
                           /\ b.plan.offer.cap.id \in AllowedIds(b.policy)
                           /\ b.plan.binding \in Elements(b.plan.offer.cap.bindings)
                           /\ b.plan.approvalRequired <=> b.policy.approvals # {}
    BY DEF FailsClosed
  <2>1. b.denied <=> b.plan = None
    BY BundleFounded DEF Founded
  <2>2. ASSUME b.plan # None
        PROVE  /\ b.policy.allowed
               /\ b.plan.offer.cap.id \in AllowedIds(b.policy)
               /\ b.plan.binding \in Elements(b.plan.offer.cap.bindings)
               /\ b.plan.approvalRequired <=> b.policy.approvals # {}
    <3>1. b.plan = PlanFor(Normalized(b.call.envelope), b.policy, b.call.offers)
      BY <2>2, BundleFounded DEF Founded, Justified
    <3>2. QED
      BY <2>2, <3>1, BundleFounded, PlanIsAllowed
  <2>3. QED
    BY <2>1, <2>2
<1>2. QED
  BY <1>1, CanonicalInvHolds, PTL

\* Every bundle comes with exactly one audit record, and both tell the same.
THEOREM BundlesAreOnRecord == Spec => []AuditTellsBundle
<1>1. CanonicalInv => AuditTellsBundle
  <2> SUFFICES ASSUME CanonicalInv, NEW b \in Bundles
               PROVE  \E i \in DOMAIN auditLog :
                        /\ {j \in DOMAIN auditLog :
                              auditLog[j].ticket = b.call.ticket} = {i}
                        /\ Tells(auditLog[i], b.policy, b.plan)
    BY DEF AuditTellsBundle, Tells
  <2>1. PICK i \in DOMAIN auditLog :
          auditLog[i].ticket = b.call.ticket /\ Tells(auditLog[i], b.policy, b.plan)
    BY BundleFounded DEF Founded
  <2>2. \A j \in DOMAIN auditLog : auditLog[j].ticket = auditLog[i].ticket => j = i
    BY DEF CanonicalInv, Ledger
  <2>3. QED
    BY <2>1, <2>2
<1>2. QED
  BY <1>1, CanonicalInvHolds, PTL

\* The built-in engine allows nothing that the broker's would not allow the actor acting
\* for itself, and asks for approval where that one does.
THEOREM CanonicalIsNoLaxer == Spec => []NoLaxerThanBroker
<1>1. CanonicalInv => NoLaxerThanBroker
  <2> SUFFICES ASSUME CanonicalInv, ~engine.injected, NEW b \in Bundles, b.plan # None,
                      Distinct(b.call.offers),
                      Alone(b.call.envelope).chainDepth <= MaxDelegationDepth
               PROVE  LET e       == Alone(b.call.envelope)
                          cap     == b.plan.offer.cap
                          verdict == Evaluate(e, cap, engine.enforce)
                      IN  /\ Reaches(e.actor.trust, cap.minTrust)
                          /\ verdict.allowed
                          /\ verdict.requiresApproval => b.plan.approvalRequired
    BY DEF NoLaxerThanBroker
  <2> DEFINE int == Normalized(b.call.envelope)
             offers == b.call.offers
             e == Alone(b.call.envelope)
             cap == b.plan.offer.cap
             verdict == Evaluate(e, cap, engine.enforce)
             passing == Passing(int, Elements(offers))
  <2>1. /\ int \in NormalizedIntent /\ offers \in Seq(Offer)
        /\ b.call.envelope \in IntentEnvelope /\ b.policy \in PolicyResult
        /\ b.policy.allowed /\ b.plan = PlanFor(int, b.policy, offers)
        /\ b.policy = EvaluateAll(int, offers, engine)
    BY BundleFounded DEF Founded, Justified
  <2>2. /\ b.plan.offer \in Elements(Eligible(b.policy, offers))
        /\ b.plan.approvalRequired <=> b.policy.approvals # {}
    BY <2>1, PlanIsAllowed
  <2>3. b.plan.offer \in passing
    BY <2>1, <2>2, DistinctOffers, EligiblePassed
  <2>4. b.policy.approvals =
          {o.cap.id : o \in {p \in passing : ApprovalNeeded(p.cap, engine.enforce)}}
    BY <2>1, EvaluateAllAnswers
  <2>5. Passes(int, cap)
    BY <2>3 DEF Passing
  <2>6. /\ e.actor = b.call.envelope.actor /\ e.prov = None
        /\ e.sensitivity = b.call.envelope.sensitivity
    BY <2>1 DEF Alone, IntentEnvelope
  <2>7. /\ int.trust = e.actor.trust /\ int.scopes = e.actor.scopes
        /\ int.sensitivity = e.sensitivity
    BY <2>6 DEF Normalized
  <2> HIDE DEF int, e, cap, passing, offers
  <2>8. /\ Reaches(e.actor.trust, cap.minTrust)
        /\ ScopesHeld(e, cap) /\ ~IsDeniedByRisk(cap.risk, e.sensitivity)
    BY <2>5, <2>6, <2>7 DEF Passes, ScopesHeld, EffectiveScopes
  <2>9. OriginatorTrusted(e, cap)
    BY <2>6 DEF OriginatorTrusted
  <2>10. verdict.allowed /\ (verdict.requiresApproval => ApprovalNeeded(cap, engine.enforce))
    BY <2>8, <2>9 DEF Evaluate, ApprovalNeeded, e
  <2>11. ApprovalNeeded(cap, engine.enforce) => b.policy.approvals # {}
    BY <2>3, <2>4 DEF cap
  <2>12. QED
    BY <2>2, <2>8, <2>10, <2>11 DEF e, cap
<1>2. QED
  BY <1>1, CanonicalInvHolds, PTL

\* What was planned for a bundle, when the engine is built in and ids are distinct.
LEMMA BundlePlanned ==
  ASSUME CanonicalInv, ~engine.injected, NEW b \in Bundles, b.plan # None,
         Distinct(b.call.offers)
  PROVE  LET int == Normalized(b.call.envelope)
         IN  /\ int \in NormalizedIntent /\ b.call.offers \in Seq(Offer)
             /\ DistinctIds(Elements(b.call.offers))
             /\ b.plan = PlanFor(int, EvaluateAll(int, b.call.offers, engine), b.call.offers)
             /\ b.plan.offer \in Elements(b.call.offers)
<1> DEFINE int == Normalized(b.call.envelope)
           offers == b.call.offers
<1>1. /\ int \in NormalizedIntent /\ offers \in Seq(Offer) /\ b.policy \in PolicyResult
      /\ b.policy.allowed /\ b.plan = PlanFor(int, b.policy, offers)
      /\ b.policy = EvaluateAll(int, offers, engine)
  BY BundleFounded DEF Founded, Justified
<1>2. b.plan.offer \in Elements(Eligible(b.policy, offers))
  BY <1>1, PlanIsAllowed
<1>3. DistinctIds(Elements(offers))
  BY DistinctOffers
<1>4. b.plan.offer \in Elements(offers)
  BY <1>1, <1>2, <1>3, EligiblePassed DEF Passing
<1>5. QED
  BY <1>1, <1>3, <1>4

\* The same candidates in the opposite order are planned the same.
THEOREM OrderIsImmaterial == Spec => []OrderDoesNotMatter
<1>1. CanonicalInv => OrderDoesNotMatter
  <2> SUFFICES ASSUME CanonicalInv, ~engine.injected, NEW b \in Bundles, b.plan # None,
                      Distinct(b.call.offers),
                      NEW shuffle \in Bijection(DOMAIN b.call.offers, DOMAIN b.call.offers)
               PROVE  Planned(b.call.envelope,
                              [i \in DOMAIN b.call.offers |-> b.call.offers[shuffle[i]]])
                        = b.plan
    BY DEF OrderDoesNotMatter
  <2> DEFINE int == Normalized(b.call.envelope)
             offers == b.call.offers
             others == [i \in DOMAIN offers |-> offers[shuffle[i]]]
             res == EvaluateAll(int, offers, engine)
             again == EvaluateAll(int, others, engine)
  <2>1. /\ int \in NormalizedIntent /\ offers \in Seq(Offer)
        /\ DistinctIds(Elements(offers))
        /\ b.plan = PlanFor(int, res, offers) /\ b.plan.offer \in Elements(offers)
    BY BundlePlanned
  <2> HIDE DEF int, offers
  <2>2. others \in Seq(Offer) /\ Elements(others) = Elements(offers)
    <3>1. /\ shuffle \in [DOMAIN offers -> DOMAIN offers]
          /\ \A j \in DOMAIN offers : \E i \in DOMAIN offers : shuffle[i] = j
      BY DEF Bijection, Surjection, offers
    <3>2. Len(offers) \in Nat /\ DOMAIN offers = 1..Len(offers)
      BY <2>1
    <3>3. others \in [1..Len(offers) -> Offer]
      BY <2>1, <3>1, <3>2
    <3>4. others \in Seq(Offer)
      BY <3>2, <3>3, IsASeq
    <3>5. ASSUME NEW j \in DOMAIN offers PROVE offers[j] \in Elements(others)
      BY <3>1 DEF Elements
    <3>6. ASSUME NEW i \in DOMAIN others PROVE others[i] \in Elements(offers)
      BY <3>1 DEF Elements
    <3>7. QED
      BY <3>4, <3>5, <3>6 DEF Elements
  <2> HIDE DEF others
  <2>3. /\ again.approvals = res.approvals
        /\ b.plan = PlanOf(int, res, b.plan.offer)
        /\ PlanFor(int, again, others) = PlanOf(int, again, b.plan.offer)
    BY <2>1, <2>2, PlannedAgain
  <2>4. PlanOf(int, again, b.plan.offer) = PlanOf(int, res, b.plan.offer)
    BY <2>3 DEF PlanOf
  <2>5. QED
    BY <2>3, <2>4 DEF Planned, int, offers, others
<1>2. QED
  BY <1>1, CanonicalInvHolds, PTL

\* Without a candidate that is not taken the same capability is planned over the same
\* binding, and approval is not required where it was not before.
THEOREM LosersCannotLoosen == Spec => []LosersOnlyTighten
<1>1. CanonicalInv => LosersOnlyTighten
  <2> SUFFICES ASSUME CanonicalInv, ~engine.injected, NEW b \in Bundles, b.plan # None,
                      Distinct(b.call.offers), NEW i \in DOMAIN b.call.offers,
                      b.call.offers[i] # b.plan.offer
               PROVE  LET again == Planned(b.call.envelope, RemoveAt(b.call.offers, i))
                      IN  /\ again # None
                          /\ again.offer = b.plan.offer /\ again.binding = b.plan.binding
                          /\ again.approvalRequired => b.plan.approvalRequired
    BY DEF LosersOnlyTighten
  <2> DEFINE int == Normalized(b.call.envelope)
             offers == b.call.offers
             others == RemoveAt(offers, i)
             res == EvaluateAll(int, offers, engine)
             again == EvaluateAll(int, others, engine)
  <2>1. /\ int \in NormalizedIntent /\ offers \in Seq(Offer)
        /\ DistinctIds(Elements(offers))
        /\ b.plan = PlanFor(int, res, offers) /\ b.plan.offer \in Elements(offers)
    BY BundlePlanned
  <2>2. i \in DOMAIN offers /\ offers[i] # b.plan.offer
    OBVIOUS
  <2> HIDE DEF int, offers
  <2>3. /\ others \in Seq(Offer) /\ Elements(others) \subseteq Elements(offers)
        /\ b.plan.offer \in Elements(others)
    <3> DEFINE front == SubSeq(offers, 1, i - 1)
               back  == SubSeq(offers, i + 1, Len(offers))
    <3>1. Len(offers) \in Nat /\ DOMAIN offers = 1..Len(offers) /\ i \in Nat /\ i >= 1
          /\ i <= Len(offers)
      BY <2>1, <2>2
    <3>2. /\ front \in Seq(Offer) /\ Len(front) = i - 1
          /\ \A k \in 1..(i - 1) : front[k] = offers[k]
      BY <2>1, <3>1, SubSeqProperties
    <3>3. /\ back \in Seq(Offer) /\ Len(back) = Len(offers) - i
          /\ \A k \in 1..(Len(offers) - i) : back[k] = offers[i + k]
      BY <2>1, <3>1, SubSeqProperties
    <3>4. others = front \o back
      BY DEF RemoveAt
    <3> HIDE DEF front, back, others
    <3>5. /\ others \in Seq(Offer) /\ Len(others) = Len(offers) - 1
          /\ \A k \in 1..(Len(offers) - 1) :
               others[k] = IF k < i THEN offers[k] ELSE offers[k + 1]
      <4>1. /\ others \in Seq(Offer) /\ Len(others) = Len(offers) - 1
            /\ \A k \in 1..(Len(front) + Len(back)) :
                 others[k] = IF k <= Len(front) THEN front[k] ELSE back[k - Len(front)]
        <5>1. /\ others \in Seq(Offer) /\ Len(others) = Len(front) + Len(back)
              /\ \A k \in 1..(Len(front) + Len(back)) :
                   others[k] = IF k <= Len(front) THEN front[k] ELSE back[k - Len(front)]
          BY <3>2, <3>3, <3>4, ConcatProperties
        <5>2. QED
          BY <3>1, <3>2, <3>3, <5>1
      <4>2. ASSUME NEW k \in 1..(Len(offers) - 1)
            PROVE  others[k] = IF k < i THEN offers[k] ELSE offers[k + 1]
        <5>1. CASE k < i
          <6>1. k \in 1..(i - 1) /\ k \in 1..(Len(front) + Len(back)) /\ k <= Len(front)
            BY <3>1, <3>2, <3>3, <5>1
          <6>2. QED
            BY <3>2, <4>1, <5>1, <6>1
        <5>2. CASE ~(k < i)
          <6>1. /\ k - (i - 1) \in 1..(Len(offers) - i) /\ i + (k - (i - 1)) = k + 1
                /\ k \in 1..(Len(front) + Len(back)) /\ ~(k <= Len(front))
            BY <3>1, <3>2, <3>3, <5>2
          <6>2. back[k - (i - 1)] = offers[k + 1]
            BY <3>3, <6>1
          <6>3. QED
            BY <3>2, <4>1, <5>2, <6>1, <6>2
        <5>3. QED
          BY <5>1, <5>2
      <4>3. QED
        BY <4>1, <4>2
    <3>6. ASSUME NEW k \in DOMAIN others PROVE others[k] \in Elements(offers)
      <4>1. k \in 1..(Len(offers) - 1) /\ k \in 1..Len(offers) /\ k + 1 \in 1..Len(offers)
        BY <3>1, <3>5
      <4>2. QED
        BY <3>1, <3>5, <4>1 DEF Elements
    <3>7. PICK k \in DOMAIN offers : b.plan.offer = offers[k]
      BY <2>1 DEF Elements
    <3>8. k # i
      BY <2>2, <3>7
    <3>9. b.plan.offer \in Elements(others)
      <4>1. CASE k < i
        <5>1. k \in 1..(Len(offers) - 1)
          BY <3>1, <4>1
        <5>2. QED
          BY <3>5, <3>7, <4>1, <5>1 DEF Elements
      <4>2. CASE i < k
        <5>1. k - 1 \in 1..(Len(offers) - 1) /\ ~(k - 1 < i) /\ (k - 1) + 1 = k
          BY <3>1, <4>2
        <5>2. others[k - 1] = offers[k]
          BY <3>5, <5>1
        <5>3. QED
          BY <3>5, <3>7, <5>1, <5>2 DEF Elements
      <4>3. QED
        BY <3>1, <3>8, <4>1, <4>2
    <3>10. QED
      BY <3>5, <3>6, <3>9 DEF Elements
  <2> HIDE DEF others
  <2>4. /\ again.approvals \subseteq res.approvals
        /\ b.plan = PlanOf(int, res, b.plan.offer)
        /\ PlanFor(int, again, others) = PlanOf(int, again, b.plan.offer)
    BY <2>1, <2>3, PlannedAgain
  <2>5. /\ PlanOf(int, again, b.plan.offer).offer = b.plan.offer
        /\ PlanOf(int, again, b.plan.offer).binding = PlanOf(int, res, b.plan.offer).binding
        /\ PlanOf(int, again, b.plan.offer).approvalRequired <=> again.approvals # {}
        /\ PlanOf(int, res, b.plan.offer).approvalRequired <=> res.approvals # {}
    BY DEF PlanOf
  <2>6. PlanFor(int, again, others) # None
    <3>1. b.plan.binding = BestBinding(int, b.plan.offer.cap) /\ b.plan \in CanonicalPlan
      <4>1. res \in PolicyResult
        BY <2>1, EvaluateAllAnswers
      <4>2. QED
        BY <2>1, <4>1, PlanIsAllowed
    <3>2. PlanOf(int, again, b.plan.offer) \in CanonicalPlan
      BY <3>1 DEF PlanOf, CanonicalPlan
    <3>3. QED
      BY <2>4, <3>2, CanonicalAssumption
  <2>7. QED
    BY <2>4, <2>5, <2>6 DEF Planned, int, offers, others
<1>2. QED
  BY <1>1, CanonicalInvHolds, PTL

====================================================================================
