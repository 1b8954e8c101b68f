---------------------------- MODULE BrokerRulesProofs ----------------------------
(***************************************************************************)
(* What the pure rules of the broker return, for every envelope and every   *)
(* registry: the facts the proofs about the components that use them have   *)
(* in common.                                                              *)
(***************************************************************************)
EXTENDS BrokerRules, OrderedDict, SequenceTheorems, FiniteSetTheorems, WellFoundedInduction, TLAPS

--------------------------------------------------------------------------------
(* Least numbers, and places in a total order: what sorted lists rest on.   *)

LEMMA Least ==
  ASSUME NEW T, T \subseteq Nat, T # {}
  PROVE  \E m \in T : \A k \in T : m <= k
<1>1. PICK m \in T : \A k \in T : ~ (<<k, m>> \in OpToRel(<, Nat))
  BY NatLessThanWellFounded, WFMin
<1>2. ASSUME NEW k \in T PROVE m <= k
  <2>1. ~(k < m)
    BY <1>1 DEF OpToRel
  <2>2. QED
    BY <2>1
<1>3. QED
  BY <1>2

StrictTotal(order, S) ==
  /\ \A x \in S : <<x, x>> \notin order
  /\ \A x, y, z \in S : <<x, y>> \in order /\ <<y, z>> \in order => <<x, z>> \in order
  /\ \A x, y \in S : x # y => <<x, y>> \in order \/ <<y, x>> \in order

\* How many elements of S come before x.
Rank(x, order, S) == Cardinality({y \in S : <<y, x>> \in order})

\* The elements of a finite set have the ranks from nought to one less than its size,
\* each of them once.
LEMMA Ranking ==
  ASSUME NEW S, IsFiniteSet(S), NEW order, StrictTotal(order, S)
  PROVE  /\ Cardinality(S) \in Nat
         /\ \A x \in S : Rank(x, order, S) \in 0..(Cardinality(S) - 1)
         /\ \A x, y \in S : Rank(x, order, S) = Rank(y, order, S) => x = y
         /\ \A n \in 1..Cardinality(S) : \E x \in S : Rank(x, order, S) = n - 1
<1> DEFINE N == Cardinality(S)
           below(x) == {y \in S : <<y, x>> \in order}
           rank(x) == Cardinality(below(x))
<1>1. N \in Nat
  BY FS_CardinalityType
<1>2. ASSUME NEW T \in SUBSET S PROVE IsFiniteSet(T) /\ Cardinality(T) \in Nat
  BY FS_Subset, FS_CardinalityType
<1>3. ASSUME NEW T \in SUBSET S, NEW U \in SUBSET T, T # U
      PROVE  Cardinality(U) < Cardinality(T)
  <2>1. Cardinality(U) <= Cardinality(T) /\ Cardinality(U) # Cardinality(T)
    BY <1>2, <1>3, FS_Subset
  <2>2. U \in SUBSET S
    OBVIOUS
  <2>3. QED
    BY <1>2, <2>1, <2>2
<1>4. ASSUME NEW x \in S PROVE rank(x) \in Nat /\ rank(x) < N
  <2>1. below(x) \in SUBSET S /\ x \notin below(x)
    BY DEF StrictTotal
  <2>2. QED
    BY <1>2, <1>3, <2>1
<1>5. ASSUME NEW x \in S, NEW y \in S, <<x, y>> \in order PROVE rank(x) < rank(y)
  <2>1. below(x) \in SUBSET below(y)
    BY <1>5 DEF StrictTotal
  <2>2. x \in below(y) /\ x \notin below(x)
    BY <1>5 DEF StrictTotal
  <2>3. below(y) \in SUBSET S
    OBVIOUS
  <2>4. QED
    BY <1>3, <2>1, <2>2, <2>3
<1>6. ASSUME NEW x \in S, NEW y \in S, rank(x) = rank(y) PROVE x = y
  <2>1. ~(rank(x) < rank(y)) /\ ~(rank(y) < rank(x))
    <3>1. rank(x) \in Nat
      BY <1>4
    <3> HIDE DEF rank
    <3>2. QED
      BY <1>6, <3>1
  <2>2. <<x, y>> \notin order /\ <<y, x>> \notin order
    BY <1>5, <2>1
  <2>3. QED
    BY <2>2 DEF StrictTotal
<1> DEFINE f == [x \in S |-> rank(x) + 1]
<1> HIDE DEF rank
<1>7. f \in Injection(S, 1..N)
  <2>1. f \in [S -> 1..N]
    BY <1>1, <1>4
  <2>2. \A x, y \in S : f[x] = f[y] => x = y
    BY <1>4, <1>6
  <2>3. QED
    BY <2>1, <2>2 DEF Injection, IsInjective
<1>8. IsFiniteSet(1..N) /\ Cardinality(1..N) = N
  BY <1>1, FS_Interval
<1>9. f \in Surjection(S, 1..N)
  BY <1>7, <1>8, FS_Injection
<1>10. ASSUME NEW n \in 1..N PROVE \E x \in S : rank(x) = n - 1
  <2>1. PICK x \in S : f[x] = n
    BY <1>9 DEF Surjection
  <2>2. QED
    BY <1>4, <2>1
<1>11. \A x \in S : rank(x) \in 0..(N - 1)
  BY <1>1, <1>4
<1>12. QED
  BY <1>1, <1>6, <1>10, <1>11 DEF rank, Rank

--------------------------------------------------------------------------------
(* What the pure rules return.                                              *)

\* Scores are natural numbers: every summand is.
LEMMA ScoreType ==
  ASSUME NEW e \in IntentEnvelope, NEW cap \in CapabilityDescriptor
  PROVE  Score(e, cap) \in Nat
<1>1. NameScore[cap.nameMatch[e.name]] \in Nat
  BY DEF NameScore, IntentEnvelope, CapabilityDescriptor, MatchKinds
<1>2. DomainScore[cap.domainMatch[e.domain]] \in Nat
  BY DEF DomainScore, IntentEnvelope, CapabilityDescriptor, MatchKinds
<1>3. QED
  BY <1>1, <1>2 DEF Score

\* A candidate is a registered capability with its score, one that has a signal for
\* the intent and whose tier the actor reaches.
LEMMA ScoredOrigin ==
  ASSUME NEW e \in IntentEnvelope, NEW reg \in Seq(CapabilityDescriptor),
         NEW c \in Scored(e, reg)
  PROVE  /\ c \in Candidate
         /\ c.place \in DOMAIN reg /\ c.cap = reg[c.place]
         /\ c.score = Score(e, c.cap)
         /\ Reaches(e.actor.trust, c.cap.minTrust)
<1>1. PICK i \in DOMAIN reg :
        /\ c = [cap |-> reg[i], score |-> Score(e, reg[i]), place |-> i]
        /\ Reaches(e.actor.trust, reg[i].minTrust)
  BY DEF Scored
<1>2. reg[i] \in CapabilityDescriptor /\ i \in Nat
  OBVIOUS
<1>3. QED
  BY <1>1, <1>2, ScoreType DEF Candidate

\* What is selected is the top of the ranked candidates, over one of the bindings
\* the rules allow.
LEMMA SelectionOrigin ==
  ASSUME NEW e \in IntentEnvelope, NEW reg \in Seq(CapabilityDescriptor),
         NEW res \in Negotiations(e, reg), res.selected # None
  PROVE  \E c \in FindMatches(e, reg) :
           /\ c \in Scored(e, reg)
           /\ IsTop(c, FindMatches(e, reg))
           /\ res.selected = c.cap
           /\ res.binding \in SelectedBindings(e, c.cap)
<1> DEFINE ranked == FindMatches(e, reg)
<1>1. ranked \subseteq Scored(e, reg)
  BY DEF FindMatches
<1> HIDE DEF ranked
<1>2. res # Clarification(ranked)
  BY DEF Clarification
<1>3. PICK c \in ranked : \E b \in SelectedBindings(e, c.cap) :
        IsTop(c, ranked) /\ res = Selection(ranked, c.cap, b, e)
  BY <1>2 DEF Negotiations, ranked
<1>4. res.selected = c.cap /\ res.binding \in SelectedBindings(e, c.cap)
  BY <1>3 DEF Selection
<1>5. QED
  BY <1>1, <1>3, <1>4 DEF ranked

\* Matching returns a negotiation result, and a capability it selects is one the
\* registry held and whose minimum trust tier the actor reaches.
LEMMA NegotiationSound ==
  ASSUME NEW e \in IntentEnvelope, NEW reg \in Seq(CapabilityDescriptor),
         NEW res \in Negotiations(e, reg)
  PROVE  /\ res \in NegotiationResult
         /\ res.selected # None =>
              /\ res.selected \in CapabilityDescriptor
              /\ Reaches(e.actor.trust, res.selected.minTrust)
<1> DEFINE ranked == FindMatches(e, reg)
<1>1. ranked \subseteq Scored(e, reg)
  BY DEF FindMatches
<1>2. \A c \in Scored(e, reg) :
        /\ c \in Candidate
        /\ Reaches(e.actor.trust, c.cap.minTrust)
  <2> SUFFICES ASSUME NEW i \in DOMAIN reg, Reaches(e.actor.trust, reg[i].minTrust)
               PROVE  /\ [cap |-> reg[i], score |-> Score(e, reg[i]), place |-> i] \in Candidate
                      /\ Reaches(e.actor.trust, reg[i].minTrust)
    BY DEF Scored
  <2>1. reg[i] \in CapabilityDescriptor /\ i \in Nat
    OBVIOUS
  <2>2. QED
    BY <2>1, ScoreType DEF Candidate
<1>3. CASE res = Clarification(ranked)
  BY <1>1, <1>2, <1>3 DEF Clarification, NegotiationResult
<1>4. ASSUME NEW c \in ranked, NEW b \in SelectedBindings(e, c.cap),
             res = Selection(ranked, c.cap, b, e)
      PROVE  /\ res \in NegotiationResult
             /\ res.selected \in CapabilityDescriptor
             /\ Reaches(e.actor.trust, res.selected.minTrust)
  <2>1. c \in Candidate /\ Reaches(e.actor.trust, c.cap.minTrust)
    BY <1>1, <1>2
  <2>2. b \in BindingTypes \cup {None}
    BY DEF SelectedBindings
  <2>3. c.cap \in CapabilityDescriptor
    BY <2>1 DEF Candidate
  <2>4. AllowedBindings(e, c.cap) \subseteq BindingTypes
    BY <2>3 DEF AllowedBindings, Elements, CapabilityDescriptor
  <2>5. QED
    BY <1>1, <1>2, <1>4, <2>1, <2>2, <2>3, <2>4 DEF Selection, NegotiationResult
<1>5. QED
  BY <1>3, <1>4 DEF Negotiations

\* A dict keeps its values when one is put or removed.
LEMMA PutType ==
  ASSUME NEW S, NEW dict \in Seq(S), NEW value \in S
  PROVE  Put(dict, value) \in Seq(S)
<1>1. CASE HoldsId(dict, value.id)
  <2>1. Put(dict, value) \in [1..Len(dict) -> S]
    BY <1>1 DEF Put
  <2>2. QED
    BY <2>1, IsASeq
<1>2. CASE ~HoldsId(dict, value.id)
  BY <1>2 DEF Put
<1>3. QED
  BY <1>1, <1>2

LEMMA RemoveType ==
  ASSUME NEW S, NEW dict \in Seq(S), NEW i \in DOMAIN dict
  PROVE  RemoveAt(dict, i) \in Seq(S)
<1>1. i \in 1..Len(dict) /\ Len(dict) \in Nat
  OBVIOUS
<1>2. SubSeq(dict, 1, i - 1) \in Seq(S) /\ SubSeq(dict, i + 1, Len(dict)) \in Seq(S)
  BY <1>1, SubSeqProperties
<1>3. QED
  BY <1>2, ConcatProperties DEF RemoveAt

\* The policy engine decides.
LEMMA EvaluateType ==
  ASSUME NEW e, NEW cap, NEW enforce, cap.humanApproval \in BOOLEAN
  PROVE  Evaluate(e, cap, enforce) \in PolicyDecision
BY DEF Evaluate, PolicyDecision

--------------------------------------------------------------------------------
(* What wins depends neither on how the list was cut nor on a loser.         *)

BeforePairs(S) == {pair \in S \X S : Before(pair[1], pair[2])}

\* Candidates are finitely many, differ in their places, and Before orders them.
LEMMA ScoredOrder ==
  ASSUME NEW e \in IntentEnvelope, NEW reg \in Seq(CapabilityDescriptor)
  PROVE  LET S == Scored(e, reg)
         IN  /\ IsFiniteSet(S)
             /\ \A c \in S : c.score \in Nat /\ c.place \in Nat
             /\ StrictTotal(BeforePairs(S), S)
<1> DEFINE S == Scored(e, reg)
           of(i) == [cap |-> reg[i], score |-> Score(e, reg[i]), place |-> i]
<1>1. ASSUME NEW c \in S
      PROVE  /\ c.place \in DOMAIN reg /\ c = of(c.place)
             /\ c.score \in Nat /\ c.place \in Nat
  <2>1. PICK i \in DOMAIN reg : c = of(i)
    BY DEF Scored
  <2>2. c \in Candidate
    BY ScoredOrigin
  <2>3. QED
    BY <2>1, <2>2 DEF Candidate
<1> HIDE DEF S
<1>2. \A c, d \in S : c.place = d.place => c = d
  <2> HIDE DEF of
  <2>1. QED
    BY <1>1
<1> HIDE DEF of
<1>3. IsFiniteSet(S)
  <2>1. IsFiniteSet(DOMAIN reg)
    <3>1. DOMAIN reg = 1..Len(reg) /\ Len(reg) \in Nat
      OBVIOUS
    <3>2. QED
      BY <3>1, FS_Interval
  <2> DEFINE f == [c \in S |-> c.place]
  <2>2. f \in [S -> DOMAIN reg]
    BY <1>1
  <2>3. \A c, d \in S : f[c] = f[d] => c = d
    BY <1>2
  <2> HIDE DEF f
  <2>4. f \in Injection(S, DOMAIN reg)
    BY <2>2, <2>3 DEF Injection, IsInjective
  <2>5. QED
    BY <2>1, <2>4, FS_Injection
<1>4. \A c, d \in S : <<c, d>> \in BeforePairs(S) <=> Before(c, d)
  BY DEF BeforePairs
<1>5. StrictTotal(BeforePairs(S), S)
  <2>1. \A x \in S : ~Before(x, x)
    BY <1>1 DEF Before
  <2>2. \A x, y, z \in S : Before(x, y) /\ Before(y, z) => Before(x, z)
    BY <1>1 DEF Before
  <2>3. \A x, y \in S : x # y => Before(x, y) \/ Before(y, x)
    BY <1>1, <1>2 DEF Before
  <2>4. QED
    BY <1>4, <2>1, <2>2, <2>3 DEF StrictTotal
<1>6. QED
  BY <1>1, <1>3, <1>5 DEF S

\* How many candidates come before c.
Ahead(c, S) == Cardinality({d \in S : Before(d, c)})

LEMMA AheadIsRank ==
  ASSUME NEW e \in IntentEnvelope, NEW reg \in Seq(CapabilityDescriptor)
  PROVE  LET S == Scored(e, reg)
         IN  /\ Cardinality(S) \in Nat
             /\ \A c \in S : Ahead(c, S) \in Nat
             /\ S # {} => \E c \in S : Ahead(c, S) = 0
             /\ \A c \in S, n \in Nat : Ahead(c, S) = n /\ n + 1 < Cardinality(S) =>
                  \E d \in S : Ahead(d, S) = n + 1
             /\ \A c, d \in S : Ahead(c, S) = Ahead(d, S) => c = d
             /\ \A c, d \in S : Before(c, d) => Ahead(c, S) < Ahead(d, S)
             /\ \A c, d \in S : c # d => Before(c, d) \/ Before(d, c)
<1> DEFINE S == Scored(e, reg)
           order == BeforePairs(S)
<1>1. IsFiniteSet(S) /\ StrictTotal(order, S)
  BY ScoredOrder
<1> HIDE DEF S
<1>2. \A c, d \in S : <<c, d>> \in order <=> Before(c, d)
  BY DEF BeforePairs
<1>3. \A c \in S : Rank(c, order, S) = Ahead(c, S)
  <2> SUFFICES ASSUME NEW c \in S PROVE Rank(c, order, S) = Ahead(c, S)
    OBVIOUS
  <2>1. {d \in S : <<d, c>> \in order} = {d \in S : Before(d, c)}
    BY <1>2
  <2>2. QED
    BY <2>1 DEF Rank, Ahead
<1>4. /\ Cardinality(S) \in Nat
      /\ \A x \in S : Ahead(x, S) \in 0..(Cardinality(S) - 1)
      /\ \A x, y \in S : Ahead(x, S) = Ahead(y, S) => x = y
      /\ \A n \in 1..Cardinality(S) : \E x \in S : Ahead(x, S) = n - 1
  <2> HIDE DEF order
  <2>1. /\ Cardinality(S) \in Nat
        /\ \A x \in S : Rank(x, order, S) \in 0..(Cardinality(S) - 1)
        /\ \A x, y \in S : Rank(x, order, S) = Rank(y, order, S) => x = y
        /\ \A n \in 1..Cardinality(S) : \E x \in S : Rank(x, order, S) = n - 1
    BY <1>1, Ranking
  <2>2. QED
    BY <1>3, <2>1
<1>5. ASSUME NEW c \in S, NEW d \in S, Before(c, d) PROVE Ahead(c, S) < Ahead(d, S)
  <2> DEFINE T == {x \in S : Before(x, d)}
             U == {x \in S : Before(x, c)}
  <2>1. \A x \in S : Before(x, c) => Before(x, d)
    BY <1>1, <1>2, <1>5 DEF StrictTotal
  <2>2. ~Before(c, c)
    BY <1>1, <1>2 DEF StrictTotal
  <2>3. U \subseteq T /\ U # T
    BY <1>5, <2>1, <2>2
  <2>4. IsFiniteSet(T) /\ IsFiniteSet(U)
    BY <1>1, FS_Subset
  <2> HIDE DEF T, U
  <2>5. Cardinality(U) <= Cardinality(T) /\ Cardinality(U) # Cardinality(T)
    BY <2>3, <2>4, FS_Subset
  <2>6. Cardinality(U) \in Nat /\ Cardinality(T) \in Nat
    BY <2>4, FS_CardinalityType
  <2>7. QED
    BY <2>5, <2>6 DEF T, U, Ahead
<1>6. S # {} => \E c \in S : Ahead(c, S) = 0
  <2> SUFFICES ASSUME S # {} PROVE \E c \in S : Ahead(c, S) = 0
    OBVIOUS
  <2>1. Cardinality(S) # 0
    BY <1>1, FS_EmptySet
  <2>2. 1 \in 1..Cardinality(S)
    BY <1>4, <2>1
  <2>3. QED
    BY <1>4, <2>2
<1>7. ASSUME NEW c \in S, NEW n \in Nat, Ahead(c, S) = n, n + 1 < Cardinality(S)
      PROVE  \E d \in S : Ahead(d, S) = n + 1
  <2>1. n + 2 \in 1..Cardinality(S) /\ (n + 2) - 1 = n + 1
    BY <1>4, <1>7
  <2>2. QED
    BY <1>4, <2>1
<1>8. \A c \in S : Ahead(c, S) \in Nat
  BY <1>4
<1>9. \A c, d \in S : c # d => Before(c, d) \/ Before(d, c)
  BY <1>1, <1>2 DEF StrictTotal
<1> HIDE DEF order
<1>10. QED
  BY <1>4, <1>5, <1>6, <1>7, <1>8, <1>9 DEF S

\* The candidate before all others.
Foremost(t, S) == t \in S /\ \A d \in S \ {t} : Before(t, d)

LEMMA LeaderAhead ==
  ASSUME NEW e \in IntentEnvelope, NEW reg \in Seq(CapabilityDescriptor), NEW t
  PROVE  Foremost(t, Scored(e, reg)) <=> t \in Scored(e, reg) /\ Ahead(t, Scored(e, reg)) = 0
<1> DEFINE S == Scored(e, reg)
<1>1. /\ \A c \in S : Ahead(c, S) \in Nat
      /\ S # {} => \E c \in S : Ahead(c, S) = 0
      /\ \A c, d \in S : Ahead(c, S) = Ahead(d, S) => c = d
      /\ \A c, d \in S : Before(c, d) => Ahead(c, S) < Ahead(d, S)
      /\ \A c, d \in S : c # d => Before(c, d) \/ Before(d, c)
  BY AheadIsRank
<1> HIDE DEF S
<1>2. ASSUME Foremost(t, S) PROVE t \in S /\ Ahead(t, S) = 0
  <2>1. PICK c \in S : Ahead(c, S) = 0
    BY <1>1, <1>2 DEF Foremost
  <2>2. ASSUME c # t PROVE FALSE
    <3>1. Before(t, c)
      BY <1>2, <2>2 DEF Foremost
    <3>2. Ahead(t, S) < 0 /\ Ahead(t, S) \in Nat
      BY <1>1, <1>2, <2>1, <3>1 DEF Foremost
    <3>3. QED
      BY <3>2
  <2>3. QED
    BY <1>2, <2>1, <2>2 DEF Foremost
<1>3. ASSUME t \in S, Ahead(t, S) = 0, NEW d \in S \ {t} PROVE Before(t, d)
  <2>1. ASSUME Before(d, t) PROVE FALSE
    <3>1. Ahead(d, S) < 0 /\ Ahead(d, S) \in Nat
      BY <1>1, <1>3, <2>1
    <3>2. QED
      BY <3>1
  <2>2. QED
    BY <1>1, <1>3, <2>1
<1>4. QED
  BY <1>2, <1>3 DEF Foremost, S

\* Nobody is close behind t: or the list has no room for anybody behind it.
Unrivalled(t, e, S) == e.maxCandidates = 1 \/ \A d \in S \ {t} : t.score - d.score >= 2

\* The top of the list find_matches returns is the leader of all candidates, and it is
\* clear of those on the list exactly when it is clear of all.
LEMMA TopIsLeader ==
  ASSUME NEW e \in IntentEnvelope, NEW reg \in Seq(CapabilityDescriptor),
         e.maxCandidates >= 0, NEW t
  PROVE  LET ranked == FindMatches(e, reg)
             S == Scored(e, reg)
         IN  /\ IsTop(t, ranked) <=> e.maxCandidates >= 1 /\ Foremost(t, S)
             /\ IsTop(t, ranked) => (ClearWinner(t, ranked) <=> Unrivalled(t, e, S))
<1> DEFINE S == Scored(e, reg)
           ranked == FindMatches(e, reg)
           keep == SliceLength(Cardinality(S), e.maxCandidates)
<1>1. /\ Cardinality(S) \in Nat
      /\ \A c \in S : Ahead(c, S) \in Nat
      /\ S # {} => \E c \in S : Ahead(c, S) = 0
      /\ \A c \in S, n \in Nat : Ahead(c, S) = n /\ n + 1 < Cardinality(S) =>
           \E d \in S : Ahead(d, S) = n + 1
      /\ \A c, d \in S : Ahead(c, S) = Ahead(d, S) => c = d
      /\ \A c, d \in S : Before(c, d) => Ahead(c, S) < Ahead(d, S)
      /\ \A c, d \in S : c # d => Before(c, d) \/ Before(d, c)
  BY AheadIsRank
<1>2. \A c : Foremost(c, S) <=> c \in S /\ Ahead(c, S) = 0
  BY LeaderAhead
<1>3. IsFiniteSet(S) /\ \A c \in S : c.score \in Nat /\ c.place \in Nat
  BY ScoredOrder
<1>4. e.maxCandidates \in Int
  BY DEF IntentEnvelope
<1>5. \A c : c \in ranked <=> c \in S /\ Ahead(c, S) < keep
  BY DEF FindMatches, Ahead
<1> HIDE DEF S, ranked
<1>6. keep = IF e.maxCandidates < Cardinality(S) THEN e.maxCandidates ELSE Cardinality(S)
  BY DEF SliceLength
<1> HIDE DEF keep
<1>7. ASSUME IsTop(t, ranked) PROVE e.maxCandidates >= 1 /\ Foremost(t, S)
  <2>1. t \in S /\ Ahead(t, S) \in Nat /\ Ahead(t, S) < keep
    BY <1>1, <1>5, <1>7 DEF IsTop
  <2>2. e.maxCandidates >= 1 /\ keep \in Nat /\ 0 < keep
    BY <1>1, <1>4, <1>6, <2>1
  <2>3. PICK c \in S : Ahead(c, S) = 0
    BY <1>1, <2>1
  <2>4. c \in ranked
    BY <1>5, <2>2, <2>3
  <2>5. ASSUME c # t PROVE FALSE
    <3>1. Before(t, c)
      BY <1>7, <2>4, <2>5 DEF IsTop
    <3>2. Ahead(t, S) < 0
      BY <1>1, <2>1, <2>3, <3>1
    <3>3. QED
      BY <2>1, <3>2
  <2>6. QED
    BY <1>2, <2>1, <2>2, <2>3, <2>5
<1>8. ASSUME e.maxCandidates >= 1, Foremost(t, S) PROVE IsTop(t, ranked)
  <2>1. t \in S /\ Ahead(t, S) = 0
    BY <1>2, <1>8
  <2>2. Cardinality(S) # 0
    BY <1>3, <2>1, FS_EmptySet
  <2>3. 0 < keep
    BY <1>1, <1>4, <1>6, <1>8, <2>2
  <2>4. t \in ranked
    BY <1>5, <2>1, <2>3
  <2>5. \A d \in ranked \ {t} : Before(t, d)
    BY <1>5, <1>8 DEF Foremost
  <2>6. QED
    BY <2>4, <2>5 DEF IsTop
<1>9. ASSUME IsTop(t, ranked), ClearWinner(t, ranked) PROVE Unrivalled(t, e, S)
  <2> SUFFICES ASSUME e.maxCandidates # 1, NEW d \in S \ {t} PROVE t.score - d.score >= 2
    BY DEF Unrivalled
  <2>1. t \in S /\ Ahead(t, S) = 0 /\ e.maxCandidates >= 2 /\ Foremost(t, S)
    BY <1>2, <1>4, <1>7, <1>9
  <2>2. Cardinality(S) >= 2
    <3> DEFINE both == {t} \cup {d}
    <3>1. Cardinality({t}) = 1 /\ IsFiniteSet({t})
      BY FS_Singleton
    <3>2. Cardinality(both) = Cardinality({t}) + 1
      BY <3>1, FS_AddElement
    <3>3. both \subseteq S
      BY <2>1
    <3> HIDE DEF both
    <3>4. Cardinality(both) = 2
      BY <3>1, <3>2
    <3>5. Cardinality(both) <= Cardinality(S)
      BY <1>3, <3>3, FS_Subset
    <3>6. QED
      BY <1>1, <3>4, <3>5
  <2>3. PICK x \in S : Ahead(x, S) = 1
    <3>1. 0 \in Nat /\ 0 + 1 < Cardinality(S) /\ 0 + 1 = 1
      BY <1>1, <2>2
    <3>2. QED
      BY <1>1, <2>1, <3>1
  <2>4. 1 < keep
    BY <1>1, <1>4, <1>6, <2>1, <2>2
  <2>5. x \in ranked /\ x # t
    BY <1>5, <2>1, <2>3, <2>4
  <2>6. t.score - x.score >= 2
    BY <1>9, <2>5 DEF ClearWinner
  <2>7. x = d \/ Before(x, d)
    <3>1. ASSUME Before(d, x) PROVE FALSE
      <4>1. Ahead(d, S) < 1 /\ Ahead(d, S) \in Nat
        BY <1>1, <2>3, <3>1
      <4>2. Ahead(d, S) = 0
        BY <4>1
      <4>3. QED
        BY <1>1, <2>1, <4>2
    <3>2. QED
      BY <1>1, <3>1
  <2>8. d.score <= x.score
    BY <1>3, <2>7 DEF Before
  <2>9. t.score \in Nat /\ d.score \in Nat /\ x.score \in Nat
    BY <1>3, <2>1
  <2>10. QED
    BY <2>6, <2>8, <2>9
<1>10. ASSUME IsTop(t, ranked), Unrivalled(t, e, S) PROVE ClearWinner(t, ranked)
  <2> SUFFICES ASSUME NEW d \in ranked \ {t} PROVE t.score - d.score >= 2
    BY DEF ClearWinner
  <2>1. d \in S \ {t} /\ Foremost(t, S) /\ Ahead(t, S) = 0
    BY <1>2, <1>5, <1>7, <1>10
  <2>2. CASE e.maxCandidates = 1
    <3>1. keep <= 1
      BY <1>1, <1>6, <2>2
    <3>2. Ahead(d, S) \in Nat /\ Ahead(d, S) < keep /\ keep \in Nat
      BY <1>1, <1>5, <1>6, <2>1, <2>2
    <3>3. Ahead(d, S) = 0
      BY <3>1, <3>2
    <3>4. QED
      BY <1>1, <2>1, <3>3 DEF Foremost
  <2>3. CASE e.maxCandidates # 1
    BY <1>10, <2>1, <2>3 DEF Unrivalled
  <2>4. QED
    BY <2>2, <2>3
<1>11. QED
  BY <1>7, <1>8, <1>9, <1>10 DEF S, ranked

\* Removing an element moves those behind it one place to the front.
LEMMA RemoveElements ==
  ASSUME NEW S, NEW dict \in Seq(S), NEW i \in DOMAIN dict
  PROVE  /\ Len(RemoveAt(dict, i)) = Len(dict) - 1
         /\ \A k \in 1..(Len(dict) - 1) :
              RemoveAt(dict, i)[k] = IF k < i THEN dict[k] ELSE dict[k + 1]
<1> DEFINE s == SubSeq(dict, 1, i - 1)
           t == SubSeq(dict, i + 1, Len(dict))
<1>1. i \in 1..Len(dict) /\ Len(dict) \in Nat /\ \A k \in 1..Len(dict) : dict[k] \in S
  OBVIOUS
<1>2. /\ s \in Seq(S) /\ Len(s) = i - 1
      /\ \A k \in 1..(i - 1) : s[k] = dict[k]
  <2>1. \A k \in 1..(i - 1) : dict[k] \in S
    BY <1>1
  <2>2. QED
    BY <1>1, <2>1, SubSeqProperties
<1>3. /\ t \in Seq(S) /\ Len(t) = Len(dict) - i
      /\ \A k \in 1..(Len(dict) - i) : t[k] = dict[i + k]
  <2>1. \A k \in (i + 1)..Len(dict) : dict[k] \in S
    BY <1>1
  <2>2. QED
    BY <1>1, <2>1, SubSeqProperties
<1> HIDE DEF s, t
<1>4. /\ Len(s \o t) = Len(s) + Len(t)
      /\ \A k \in 1..(Len(s) + Len(t)) : (s \o t)[k] = IF k <= Len(s) THEN s[k] ELSE t[k - Len(s)]
  BY <1>2, <1>3, ConcatProperties
<1>5. ASSUME NEW k \in 1..(Len(dict) - 1)
      PROVE  (s \o t)[k] = IF k < i THEN dict[k] ELSE dict[k + 1]
  <2>1. CASE k < i
    BY <1>1, <1>2, <1>3, <1>4, <2>1
  <2>2. CASE ~(k < i)
    <3>1. (s \o t)[k] = t[k - (i - 1)]
      <4>1. i \in Nat /\ Len(s) = i - 1 /\ Len(s) + Len(t) = Len(dict) - 1 /\ ~(k <= Len(s))
        BY <1>1, <1>2, <1>3, <2>2
      <4>2. QED
        BY <1>4, <4>1
    <3>2. k - (i - 1) \in 1..(Len(dict) - i) /\ i + (k - (i - 1)) = k + 1
      BY <1>1, <2>2
    <3>3. QED
      BY <1>3, <2>2, <3>1, <3>2
  <2>3. QED
    BY <2>1, <2>2
<1>6. RemoveAt(dict, i) = s \o t
  BY DEF RemoveAt, s, t
<1>7. Len(s \o t) = Len(dict) - 1
  BY <1>1, <1>2, <1>3, <1>4
<1>8. QED
  BY <1>5, <1>6, <1>7

\* The candidate c of a registry, in the registry without its i-th element.
Shifted(c, i) ==
  [cap |-> c.cap, score |-> c.score, place |-> IF c.place < i THEN c.place ELSE c.place - 1]

LEMMA ScoredWithout ==
  ASSUME NEW e \in IntentEnvelope, NEW reg \in Seq(CapabilityDescriptor), NEW i \in DOMAIN reg
  PROVE  LET S == Scored(e, reg)
             R == Scored(e, RemoveAt(reg, i))
         IN  /\ \A c \in S : c.place # i => Shifted(c, i) \in R
             /\ \A d \in R : \E c \in S : c.place # i /\ d = Shifted(c, i)
<1> DEFINE rest == RemoveAt(reg, i)
           in(cap) == Reaches(e.actor.trust, cap.minTrust) /\ HasSignal(e, cap)
           of(cap, j) == [cap |-> cap, score |-> Score(e, cap), place |-> j]
<1>1. Len(reg) \in Nat /\ DOMAIN reg = 1..Len(reg) /\ i \in 1..Len(reg)
  OBVIOUS
<1>2. rest \in Seq(CapabilityDescriptor) /\ Len(rest) = Len(reg) - 1
  BY RemoveType, RemoveElements
<1>3. DOMAIN rest = 1..(Len(reg) - 1)
  <2> HIDE DEF rest
  <2>1. QED
    BY <1>2
<1>4. \A k \in 1..(Len(reg) - 1) : rest[k] = IF k < i THEN reg[k] ELSE reg[k + 1]
  BY RemoveElements
<1>5. \A c : c \in Scored(e, reg) <=> \E j \in DOMAIN reg : in(reg[j]) /\ c = of(reg[j], j)
  BY DEF Scored
<1>6. \A c : c \in Scored(e, rest) <=> \E j \in DOMAIN rest : in(rest[j]) /\ c = of(rest[j], j)
  BY DEF Scored
<1>7. \A cap, j : Shifted(of(cap, j), i) = of(cap, IF j < i THEN j ELSE j - 1)
  BY DEF Shifted
<1>8. \A cap, j : of(cap, j).place = j
  OBVIOUS
<1> HIDE DEF rest, in, of
<1>9. ASSUME NEW c \in Scored(e, reg), c.place # i PROVE Shifted(c, i) \in Scored(e, rest)
  <2>1. PICK j \in DOMAIN reg : in(reg[j]) /\ c = of(reg[j], j)
    BY <1>5
  <2> DEFINE k == IF j < i THEN j ELSE j - 1
  <2>2. j # i
    BY <1>8, <1>9, <2>1
  <2>3. k \in 1..(Len(reg) - 1) /\ rest[k] = reg[j]
    BY <1>1, <1>4, <2>2
  <2>4. Shifted(c, i) = of(rest[k], k)
    BY <1>7, <2>1, <2>3
  <2> HIDE DEF k
  <2>5. QED
    BY <1>3, <1>6, <2>1, <2>3, <2>4
<1>10. ASSUME NEW d \in Scored(e, rest)
       PROVE  \E c \in Scored(e, reg) : c.place # i /\ d = Shifted(c, i)
  <2>1. PICK k \in 1..(Len(reg) - 1) : in(rest[k]) /\ d = of(rest[k], k)
    BY <1>3, <1>6
  <2> DEFINE j == IF k < i THEN k ELSE k + 1
  <2>2. j \in 1..Len(reg) /\ j # i /\ rest[k] = reg[j] /\ k = (IF j < i THEN j ELSE j - 1)
    BY <1>1, <1>4
  <2> HIDE DEF j
  <2>3. of(reg[j], j) \in Scored(e, reg)
    BY <1>1, <1>5, <2>1, <2>2
  <2>4. of(reg[j], j).place # i /\ d = Shifted(of(reg[j], j), i)
    BY <1>7, <1>8, <2>1, <2>2
  <2>5. QED
    BY <2>3, <2>4
<1>11. QED
  BY <1>9, <1>10 DEF rest

\* Who comes first, and by what margin, does not depend on another element.
LEMMA ForemostWithout ==
  ASSUME NEW e \in IntentEnvelope, NEW reg \in Seq(CapabilityDescriptor), NEW i \in DOMAIN reg,
         NEW t, Foremost(t, Scored(e, reg)), t.place # i
  PROVE  LET R == Scored(e, RemoveAt(reg, i))
         IN  /\ Foremost(Shifted(t, i), R)
             /\ Unrivalled(t, e, Scored(e, reg)) => Unrivalled(Shifted(t, i), e, R)
<1> DEFINE S == Scored(e, reg)
           R == Scored(e, RemoveAt(reg, i))
           u == Shifted(t, i)
<1>1. /\ \A c \in S : c.place # i => Shifted(c, i) \in R
      /\ \A d \in R : \E c \in S : c.place # i /\ d = Shifted(c, i)
  BY ScoredWithout
<1>2. t \in S /\ \A d \in S \ {t} : Before(t, d)
  BY DEF Foremost
<1>3. \A c \in S : c.score \in Nat /\ c.place \in Nat
  BY ScoredOrder
<1>4. i \in Nat
  OBVIOUS
<1> HIDE DEF S, R
<1>5. \A c \in S : /\ Shifted(c, i).score = c.score
                   /\ Shifted(c, i).place = IF c.place < i THEN c.place ELSE c.place - 1
  BY DEF Shifted
<1>6. ASSUME NEW d \in R \ {u}
      PROVE  Before(u, d) /\ (Unrivalled(t, e, S) => e.maxCandidates = 1 \/ u.score - d.score >= 2)
  <2>1. PICK c \in S : c.place # i /\ d = Shifted(c, i)
    BY <1>1
  <2>2. c # t
    BY <2>1
  <2>3. Before(t, c)
    BY <1>2, <2>2
  <2>4. Before(u, d)
    BY <1>2, <1>3, <1>4, <1>5, <2>1, <2>3 DEF Before
  <2>5. u.score = t.score /\ d.score = c.score
    BY <1>2, <1>5, <2>1
  <2>6. QED
    BY <2>2, <2>4, <2>5 DEF Unrivalled
<1>7. u \in R
  BY <1>1, <1>2
<1> HIDE DEF u
<1>8. Foremost(u, R) /\ (Unrivalled(t, e, S) => Unrivalled(u, e, R))
  BY <1>6, <1>7 DEF Foremost, Unrivalled
<1>9. QED
  BY <1>8 DEF S, R, u

\* With a slice that does not count from the end, the broker selects what comes first,
\* when it is clear of the rest or the envelope lets the broker guess.
Wins(t, e, S) ==
  /\ e.maxCandidates >= 1
  /\ Foremost(t, S)
  /\ Unrivalled(t, e, S) \/ e.allowFallback

LEMMA WinnerSelected ==
  ASSUME NEW e \in IntentEnvelope, NEW reg \in Seq(CapabilityDescriptor),
         e.maxCandidates >= 0
  PROVE  LET S == Scored(e, reg)
         IN  /\ \A res \in Negotiations(e, reg) : res.selected # None =>
                  \E t \in S : /\ Wins(t, e, S)
                               /\ res.selected = t.cap
                               /\ SelectedBindings(e, t.cap) # {}
             /\ \A t \in S : Wins(t, e, S) /\ SelectedBindings(e, t.cap) # {} =>
                  {res.selected : res \in Negotiations(e, reg)} = {t.cap}
<1> DEFINE ranked == FindMatches(e, reg)
           S == Scored(e, reg)
           takes(c) == IsTop(c, ranked) /\ (ClearWinner(c, ranked) \/ e.allowFallback)
<1>1. \A t : IsTop(t, ranked) <=> e.maxCandidates >= 1 /\ Foremost(t, S)
  BY TopIsLeader
<1>2. \A t : IsTop(t, ranked) => (ClearWinner(t, ranked) <=> Unrivalled(t, e, S))
  BY TopIsLeader
<1>3. \A c \in S : c.score \in Nat /\ c.place \in Nat
  BY ScoredOrder
<1> HIDE DEF ranked
<1>4. ASSUME NEW res \in Negotiations(e, reg)
      PROVE  \/ /\ res = Clarification(ranked)
                /\ \/ ranked = {}
                   \/ /\ ~e.allowFallback
                      /\ \A c \in ranked : IsTop(c, ranked) => ~ClearWinner(c, ranked)
             \/ \E c \in ranked : takes(c) /\ \E b \in SelectedBindings(e, c.cap) :
                  res = Selection(ranked, c.cap, b, e)
  BY DEF Negotiations, ranked
<1>5. ASSUME NEW c \in ranked, takes(c), NEW b \in SelectedBindings(e, c.cap)
      PROVE  Selection(ranked, c.cap, b, e) \in Negotiations(e, reg)
  <2> DEFINE tops == {t \in ranked : IsTop(t, ranked) /\ (ClearWinner(t, ranked) \/ e.allowFallback)}
             plans(t) == {Selection(ranked, t.cap, x, e) : x \in SelectedBindings(e, t.cap)}
  <2>1. c \in tops
    BY <1>5
  <2>2. Selection(ranked, c.cap, b, e) \in plans(c)
    OBVIOUS
  <2>3. UNION {plans(t) : t \in tops} \subseteq Negotiations(e, reg)
    BY Zenon DEF Negotiations, ranked
  <2> HIDE DEF tops, plans
  <2>4. QED
    BY <2>1, <2>2, <2>3
<1> USE DEF ranked
<1>6. \A c : IsTop(c, ranked) => c \in ranked
  BY DEF IsTop
<1>7. \A t : takes(t) <=> Wins(t, e, S)
  BY <1>1, <1>2 DEF Wins
<1>8. \A t, u \in S : Wins(t, e, S) /\ Wins(u, e, S) => t = u
  <2> HIDE DEF S
  <2>1. QED
    BY <1>3 DEF Wins, Foremost, Before
<1>9. \A t : Wins(t, e, S) => t \in S
  BY DEF Wins, Foremost
<1>10. Clarification(ranked).selected = None
  BY DEF Clarification
<1>11. \A cap, b : Selection(ranked, cap, b, e).selected = cap
  BY DEF Selection
<1> HIDE DEF S, ranked
<1>12. ASSUME NEW res \in Negotiations(e, reg), res.selected # None
       PROVE  \E t \in S : /\ Wins(t, e, S)
                           /\ res.selected = t.cap
                           /\ SelectedBindings(e, t.cap) # {}
  <2>1. PICK c \in ranked : takes(c) /\ \E b \in SelectedBindings(e, c.cap) :
          res = Selection(ranked, c.cap, b, e)
    BY <1>4, <1>10, <1>12
  <2> HIDE DEF takes
  <2>2. QED
    BY <1>7, <1>9, <1>11, <2>1
<1>13. ASSUME NEW t \in S, Wins(t, e, S), SelectedBindings(e, t.cap) # {}
       PROVE  {res.selected : res \in Negotiations(e, reg)} = {t.cap}
  <2>1. takes(t) /\ t \in ranked
    BY <1>6, <1>7, <1>13
  <2>2. ASSUME NEW res \in Negotiations(e, reg) PROVE res.selected = t.cap
    <3>1. ~(\/ ranked = {}
            \/ /\ ~e.allowFallback
               /\ \A c \in ranked : IsTop(c, ranked) => ~ClearWinner(c, ranked))
      BY <2>1
    <3>2. PICK c \in ranked : takes(c) /\ \E b \in SelectedBindings(e, c.cap) :
            res = Selection(ranked, c.cap, b, e)
      BY <1>4, <3>1
    <3> HIDE DEF takes
    <3>3. c = t
      BY <1>7, <1>8, <1>9, <1>13, <3>2
    <3>4. QED
      BY <1>11, <3>2, <3>3
  <2>3. \E res \in Negotiations(e, reg) : res.selected = t.cap
    <3>1. PICK b \in SelectedBindings(e, t.cap) : TRUE
      BY <1>13
    <3> HIDE DEF takes
    <3>2. Selection(ranked, t.cap, b, e) \in Negotiations(e, reg)
      BY <1>5, <2>1
    <3>3. QED
      BY <1>11, <3>2
  <2>4. QED
    BY <2>2, <2>3
<1> HIDE DEF takes
<1>14. QED
  BY <1>12, <1>13 DEF S

\* An element the broker did not select does not matter to what it selects.
LEMMA LoserImmaterial ==
  ASSUME NEW e \in IntentEnvelope, NEW reg \in Seq(CapabilityDescriptor), NEW i \in DOMAIN reg,
         e.maxCandidates >= 0,
         NEW found \in Negotiations(e, reg), found.selected \notin {None, reg[i]}
  PROVE  {again.selected : again \in Negotiations(e, RemoveAt(reg, i))} = {found.selected}
<1> DEFINE rest == RemoveAt(reg, i)
<1>1. rest \in Seq(CapabilityDescriptor)
  BY RemoveType
<1>2. PICK t \in Scored(e, reg) : /\ Wins(t, e, Scored(e, reg))
                                  /\ found.selected = t.cap
                                  /\ SelectedBindings(e, t.cap) # {}
  <2>1. \A res \in Negotiations(e, reg) : res.selected # None =>
          \E t \in Scored(e, reg) : /\ Wins(t, e, Scored(e, reg))
                                    /\ res.selected = t.cap
                                    /\ SelectedBindings(e, t.cap) # {}
    BY WinnerSelected
  <2>2. QED
    BY <2>1
<1>3. t.place # i
  <2>1. t.cap = reg[t.place]
    BY ScoredOrigin
  <2>2. QED
    BY <1>2, <2>1
<1> DEFINE u == Shifted(t, i)
<1>4. Foremost(u, Scored(e, rest))
      /\ (Unrivalled(t, e, Scored(e, reg)) => Unrivalled(u, e, Scored(e, rest)))
  BY <1>2, <1>3, ForemostWithout DEF Wins
<1>5. u.cap = t.cap
  BY DEF Shifted
<1> HIDE DEF u, rest
<1>6. Wins(u, e, Scored(e, rest)) /\ u \in Scored(e, rest)
  BY <1>2, <1>4 DEF Wins, Foremost
<1>7. {again.selected : again \in Negotiations(e, rest)} = {u.cap}
  BY <1>1, <1>2, <1>5, <1>6, WinnerSelected
<1>8. QED
  BY <1>2, <1>5, <1>7 DEF rest

\* The two halves of WinnerSelected.
LEMMA WinnerFound ==
  ASSUME NEW e \in IntentEnvelope, NEW reg \in Seq(CapabilityDescriptor), e.maxCandidates >= 0,
         NEW found \in Negotiations(e, reg), found.selected # None
  PROVE  \E t \in Scored(e, reg) : /\ Wins(t, e, Scored(e, reg))
                                   /\ found.selected = t.cap
                                   /\ SelectedBindings(e, t.cap) # {}
<1>1. \A res \in Negotiations(e, reg) : res.selected # None =>
        \E t \in Scored(e, reg) : /\ Wins(t, e, Scored(e, reg))
                                  /\ res.selected = t.cap
                                  /\ SelectedBindings(e, t.cap) # {}
  BY WinnerSelected
<1>2. QED
  BY <1>1

LEMMA WinnerIsSelected ==
  ASSUME NEW e \in IntentEnvelope, NEW reg \in Seq(CapabilityDescriptor), e.maxCandidates >= 0,
         NEW t \in Scored(e, reg), Wins(t, e, Scored(e, reg)), SelectedBindings(e, t.cap) # {}
  PROVE  /\ \A res \in Negotiations(e, reg) : res.selected = t.cap
         /\ \E res \in Negotiations(e, reg) : res.selected = t.cap
<1>1. {res.selected : res \in Negotiations(e, reg)} = {t.cap}
  BY WinnerSelected
<1>2. QED
  BY <1>1

\* The same elements, each as often, in some other order.
Reorders(other, s) ==
  \E from \in [DOMAIN other -> DOMAIN s] :
    /\ \A k \in DOMAIN other : other[k] = s[from[k]]
    /\ \A j, k \in DOMAIN other : from[j] = from[k] => j = k
    /\ \A i \in DOMAIN s : \E k \in DOMAIN other : from[k] = i

\* Without fallback what is selected is far ahead of all other candidates, the ones cut
\* off the list included, and wins in whatever order the registry lists them.
LEMMA NoOrderMatters ==
  ASSUME NEW e \in IntentEnvelope, NEW reg \in Seq(CapabilityDescriptor),
         NEW other \in Seq(CapabilityDescriptor), Reorders(other, reg),
         e.maxCandidates >= 2, ~e.allowFallback,
         NEW found \in Negotiations(e, reg), found.selected # None
  PROVE  /\ \A c \in Scored(e, reg) :
              c.cap # found.selected => Score(e, found.selected) >= c.score + 2
         /\ \E u \in Scored(e, other) :
              /\ u.cap = found.selected /\ SelectedBindings(e, u.cap) # {}
              /\ Wins(u, e, Scored(e, other))
<1>0. e.maxCandidates \in Int /\ e.maxCandidates >= 0 /\ e.maxCandidates # 1
  BY DEF IntentEnvelope
<1>1. PICK t \in Scored(e, reg) : /\ Wins(t, e, Scored(e, reg))
                                  /\ found.selected = t.cap
                                  /\ SelectedBindings(e, t.cap) # {}
  BY <1>0, WinnerFound
<1>a. PICK from \in [DOMAIN other -> DOMAIN reg] :
        /\ \A k \in DOMAIN other : other[k] = reg[from[k]]
        /\ \A j, k \in DOMAIN other : from[j] = from[k] => j = k
        /\ \A i \in DOMAIN reg : \E k \in DOMAIN other : from[k] = i
  BY DEF Reorders
<1> DEFINE S == Scored(e, reg)
           R == Scored(e, other)
           in(cap) == Reaches(e.actor.trust, cap.minTrust) /\ HasSignal(e, cap)
           of(cap, j) == [cap |-> cap, score |-> Score(e, cap), place |-> j]
<1>2. \A d \in S \ {t} : t.score - d.score >= 2
  BY <1>0, <1>1 DEF Wins, Unrivalled
<1>3. \A c \in S : c.score \in Nat /\ c.score = Score(e, c.cap)
  BY ScoredOrigin, ScoredOrder
<1>4. \A c \in S : c.cap # t.cap => Score(e, t.cap) >= c.score + 2
  BY <1>1, <1>2, <1>3
<1>5. PICK i \in DOMAIN reg : t = of(reg[i], i) /\ in(reg[i])
  BY <1>1 DEF Scored
<1>6. PICK k \in DOMAIN other : from[k] = i
  BY <1>a
<1> DEFINE u == of(other[k], k)
<1>7. other[k] = reg[i]
  BY <1>6, <1>a
<1>8. u \in R /\ u.cap = t.cap /\ u.score = t.score
  <2>1. in(other[k])
    BY <1>5, <1>7
  <2>2. u \in R
    BY <2>1 DEF Scored
  <2>3. QED
    BY <1>5, <1>7, <2>2
<1>9. ASSUME NEW d \in R \ {u} PROVE u.score - d.score >= 2 /\ d.score \in Nat
  <2>1. PICK j \in DOMAIN other : d = of(other[j], j) /\ in(other[j])
    BY DEF Scored
  <2>2. from[j] # i
    BY <1>6, <1>9, <1>a, <2>1
  <2>3. other[j] = reg[from[j]] /\ from[j] \in DOMAIN reg
    BY <1>a
  <2> DEFINE c == of(reg[from[j]], from[j])
  <2>4. c \in S
    BY <2>1, <2>3 DEF Scored
  <2>5. c # t
    BY <1>5, <2>2
  <2>6. c.score = d.score
    BY <2>1, <2>3
  <2> HIDE DEF c, S, u
  <2>7. QED
    BY <1>2, <1>3, <1>8, <2>4, <2>5, <2>6
<1> HIDE DEF S, R, u, of, in
<1>10. \A d \in R \ {u} : Before(u, d)
  <2>1. u.score \in Nat
    BY <1>1, <1>3, <1>8 DEF S
  <2>2. QED
    BY <1>9, <2>1 DEF Before
<1>11. Wins(u, e, R)
  BY <1>0, <1>8, <1>9, <1>10 DEF Wins, Foremost, Unrivalled
<1>12. QED
  BY <1>1, <1>4, <1>8, <1>11 DEF S, R

\* A renewed element moves to the end.
LEMMA RenewedOrder ==
  ASSUME NEW S, NEW dict \in Seq(S), NEW i \in DOMAIN dict
  PROVE  /\ Append(RemoveAt(dict, i), dict[i]) \in Seq(S)
         /\ Reorders(Append(RemoveAt(dict, i), dict[i]), dict)
<1> DEFINE rest == RemoveAt(dict, i)
           other == Append(rest, dict[i])
           N == Len(dict)
           from == [k \in 1..N |-> IF k < i THEN k ELSE IF k < N THEN k + 1 ELSE i]
<1>1. N \in Nat /\ i \in 1..N /\ DOMAIN dict = 1..N /\ dict[i] \in S
  OBVIOUS
<1>2. /\ rest \in Seq(S) /\ Len(rest) = N - 1
      /\ \A k \in 1..(N - 1) : rest[k] = IF k < i THEN dict[k] ELSE dict[k + 1]
  BY RemoveType, RemoveElements
<1> HIDE DEF rest, N
<1>3. /\ other \in Seq(S) /\ DOMAIN other = 1..N
      /\ \A k \in 1..(N - 1) : other[k] = rest[k]
      /\ other[N] = dict[i]
  BY <1>1, <1>2
<1> HIDE DEF other
<1>4. from \in [1..N -> 1..N]
  BY <1>1
<1>5. \A k \in 1..N : other[k] = dict[from[k]]
  BY <1>1, <1>2, <1>3
<1>6. \A j, k \in 1..N : from[j] = from[k] => j = k
  <2>0. \A k \in 1..N : from[k] = IF k < i THEN k ELSE IF k < N THEN k + 1 ELSE i
    OBVIOUS
  <2>1. \A k \in 1..N : /\ k \in Int
                        /\ k < i => from[k] = k
                        /\ ~(k < i) /\ k < N => from[k] = k + 1
                        /\ ~(k < i) /\ ~(k < N) => from[k] = i /\ k = N
    <3> HIDE DEF from
    <3>1. QED
      BY <1>1, <2>0
  <2> HIDE DEF from
  <2>2. QED
    BY <1>1, <2>1
<1>7. ASSUME NEW n \in 1..N PROVE \E k \in 1..N : from[k] = n
  <2>1. CASE n < i
    BY <1>1, <2>1
  <2>2. CASE n = i
    <3>1. N \in 1..N /\ from[N] = i
      BY <1>1
    <3>2. QED
      BY <2>2, <3>1
  <2>3. CASE n > i
    <3>1. n - 1 \in 1..N /\ from[n - 1] = n
      BY <1>1, <2>3
    <3>2. QED
      BY <3>1
  <2>4. QED
    BY <1>1, <2>1, <2>2, <2>3
<1> HIDE DEF from
<1>8. DOMAIN other = 1..N /\ DOMAIN dict = 1..N /\ other \in Seq(S)
  BY <1>1, <1>3
<1>9. Reorders(other, dict)
  <2>1. from \in [DOMAIN other -> DOMAIN dict]
    BY <1>4, <1>8
  <2>2. \A k \in DOMAIN other : other[k] = dict[from[k]]
    BY <1>5, <1>8
  <2>3. \A j, k \in DOMAIN other : from[j] = from[k] => j = k
    BY <1>6, <1>8
  <2>4. \A n \in DOMAIN dict : \E k \in DOMAIN other : from[k] = n
    BY <1>7, <1>8
  <2>5. QED
    BY <2>1, <2>2, <2>3, <2>4, Zenon DEF Reorders
<1>10. QED
  BY <1>8, <1>9 DEF other, rest

\* Both for a capability that is unregistered and registered again.
LEMMA NoRenewalMatters ==
  ASSUME NEW e \in IntentEnvelope, NEW reg \in Seq(CapabilityDescriptor), NEW i \in DOMAIN reg,
         e.maxCandidates >= 2, ~e.allowFallback,
         NEW found \in Negotiations(e, reg), found.selected # None
  PROVE  /\ \A c \in Scored(e, reg) :
              c.cap # found.selected => Score(e, found.selected) >= c.score + 2
         /\ {again.selected : again \in Negotiations(e, Append(RemoveAt(reg, i), reg[i]))}
              = {found.selected}
<1> DEFINE other == Append(RemoveAt(reg, i), reg[i])
<1>1. other \in Seq(CapabilityDescriptor)
  BY RenewedOrder
<1>2. Reorders(other, reg)
  BY RenewedOrder
<1> HIDE DEF other
<1>3. /\ \A c \in Scored(e, reg) :
           c.cap # found.selected => Score(e, found.selected) >= c.score + 2
      /\ \E u \in Scored(e, other) :
           /\ u.cap = found.selected /\ SelectedBindings(e, u.cap) # {}
           /\ Wins(u, e, Scored(e, other))
  BY <1>1, <1>2, NoOrderMatters
<1>4. e.maxCandidates >= 0
  BY DEF IntentEnvelope
<1>5. {again.selected : again \in Negotiations(e, other)} = {found.selected}
  <2>1. PICK u \in Scored(e, other) :
           /\ u.cap = found.selected /\ SelectedBindings(e, u.cap) # {}
           /\ Wins(u, e, Scored(e, other))
    BY <1>3
  <2>2. /\ \A res \in Negotiations(e, other) : res.selected = u.cap
        /\ \E res \in Negotiations(e, other) : res.selected = u.cap
    BY <1>1, <1>4, <2>1, WinnerIsSelected
  <2>3. QED
    BY <2>1, <2>2
<1>6. QED
  BY <1>3, <1>5 DEF other

--------------------------------------------------------------------------------
(* Validation and policy, taken together.                                   *)

Timely(e, time) == Delegated(e) /\ e.prov.expiry # None => time < e.prov.expiry

Examined(e, time) ==
  /\ Reaches(e.actor.trust, e.declaredTrust)
  /\ Delegated(e) => e.prov.depth <= MaxDelegationDepth
  /\ Timely(e, time)

\* An envelope the validator accepts has been examined as of that moment, hence
\* as of any earlier one.
LEMMA ValidIsExamined ==
  ASSUME NEW e \in IntentEnvelope, NEW time \in Nat, NEW now \in Nat, time <= now,
         ValidEnvelope(e, now)
  PROVE  Examined(e, time)
<1>1. Reaches(e.actor.trust, e.declaredTrust)
  BY DEF ValidEnvelope, TrustNotEscalated
<1>2. ASSUME e.prov # None
      PROVE  /\ e.prov.depth <= MaxDelegationDepth
             /\ e.prov.expiry # None => time < e.prov.expiry
  <2>1. e.prov \in ProvenanceBlock
    BY <1>2 DEF IntentEnvelope
  <2>2. ValidProvenance(e.prov, e.actor, now)
    BY <1>2 DEF ValidEnvelope
  <2>3. e.prov.depth <= MaxDelegationDepth /\ (e.prov.expiry = None \/ e.prov.expiry > now)
    BY <2>2 DEF ValidProvenance, NotExpired
  <2>4. e.prov.expiry \in Nat \cup {None}
    BY <2>1 DEF ProvenanceBlock
  <2>5. QED
    BY <2>3, <2>4
<1>3. QED
  BY <1>1, <1>2 DEF Examined, Timely, Delegated

\* When the policy engine allows an examined call whose actor reaches the
\* capability's tier, the actor is permitted to use it, and the engine asks for
\* approval exactly when the capability needs it.
LEMMA EvaluateSound ==
  ASSUME NEW e \in IntentEnvelope, NEW cap \in CapabilityDescriptor, NEW enforce, NEW time,
         Examined(e, time),
         Reaches(e.actor.trust, cap.minTrust),
         Evaluate(e, cap, enforce).allowed
  PROVE  /\ Permitted(e, cap)
         /\ Evaluate(e, cap, enforce).requiresApproval
              = (RequiresApproval(cap.risk, cap.opClass, enforce) \/ cap.humanApproval)
<1> DEFINE authorised == ScopesHeld(e, cap) /\ OriginatorTrusted(e, cap)
<1>1. /\ authorised
      /\ ~IsDeniedByRisk(cap.risk, e.sensitivity)
      /\ e.chainDepth <= MaxDelegationDepth
  BY DEF Evaluate
<1>2. cap.scopes \subseteq EffectiveScopes(e)
  BY <1>1 DEF ScopesHeld, MissingScopes
<1>3. /\ cap.scopes \subseteq e.actor.scopes
      /\ e.prov # None /\ e.prov.authority # None => cap.scopes \subseteq e.prov.authority
  BY <1>2 DEF EffectiveScopes
<1>4. ~(cap.risk = "critical" /\ e.sensitivity = "restricted")
  BY <1>1 DEF IsDeniedByRisk
<1>5. Permitted(e, cap)
  BY <1>1, <1>3, <1>4 DEF Permitted, Delegated, OriginatorTrusted, Examined
<1>6. Evaluate(e, cap, enforce).requiresApproval
        = (RequiresApproval(cap.risk, cap.opClass, enforce) \/ cap.humanApproval)
  BY <1>1 DEF Evaluate
<1>7. QED
  BY <1>5, <1>6
================================================================================
