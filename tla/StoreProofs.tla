------------------------------ MODULE StoreProofs ------------------------------
(***************************************************************************)
(* The capability store: for any number of threads its file follows its    *)
(* memory as long as no two of them save or reload at once; and for one    *)
(* thread it is the persistent registry of RegistryStore.  For every set   *)
(* of capabilities, edited files and bounds.                               *)
(***************************************************************************)
EXTENDS CapabilityStore, SequenceTheorems, WellFoundedInduction, TLAPS

--------------------------------------------------------------------------------
(* Dicts.                                                                   *)

LEMMA LeastNumber ==
  ASSUME NEW T, T \subseteq Nat, T # {}
  PROVE  \E m \in T : \A k \in T : m <= k
<1>1. PICK m \in T : \A k \in T : ~ (<<k, m>> \in OpToRel(<, Nat))
  BY NatLessThanWellFounded, WFMin
<1>2. ASSUME NEW k \in T PROVE m <= k
  <2>1. ~(k < m)
    BY <1>1 DEF OpToRel
  <2>2. QED
    BY <2>1
<1>3. QED
  BY <1>2

\* No two values share an id.
Distinct(dict) == \A i, j \in DOMAIN dict : dict[i].id = dict[j].id => i = j

LEMMA EmptyDict == <<>> \in Dicts /\ Distinct(<<>>) /\ Len(<<>>) = 0
  BY DEF Dicts, Distinct

LEMMA PutKeeps ==
  ASSUME NEW dict \in Dicts, NEW cap \in Capabilities
  PROVE  /\ Put(dict, cap) \in Dicts
         /\ Distinct(dict) => Distinct(Put(dict, cap))
         /\ Len(Put(dict, cap)) = IF HoldsId(dict, cap.id) THEN Len(dict) ELSE Len(dict) + 1
<1>1. CASE HoldsId(dict, cap.id)
  <2>1. Put(dict, cap) = [i \in 1..Len(dict) |-> IF dict[i].id = cap.id THEN cap ELSE dict[i]]
    BY <1>1 DEF Put, Dicts
  <2>2. Put(dict, cap) \in Seq(Capabilities)
    BY <2>1, IsASeq DEF Dicts
  <2>3. DOMAIN Put(dict, cap) = DOMAIN dict
    BY <2>1 DEF Dicts
  <2>4. \A i \in DOMAIN dict : Put(dict, cap)[i].id = dict[i].id
    BY <2>1 DEF Dicts
  <2>5. Len(Put(dict, cap)) = Len(dict)
    BY <2>2, <2>3 DEF Dicts
  <2>6. QED
    BY <1>1, <2>2, <2>3, <2>4, <2>5 DEF Distinct, Dicts
<1>2. CASE ~HoldsId(dict, cap.id)
  <2>1. Put(dict, cap) = Append(dict, cap) /\ Append(dict, cap) \in Seq(Capabilities)
    BY <1>2 DEF Put, Dicts
  <2>2. /\ DOMAIN dict = 1..Len(dict) /\ Len(dict) \in Nat
        /\ DOMAIN Append(dict, cap) = 1..(Len(dict) + 1)
        /\ Append(dict, cap)[Len(dict) + 1] = cap
        /\ \A i \in 1..Len(dict) : Append(dict, cap)[i] = dict[i]
    BY DEF Dicts
  <2>3. \A i \in 1..Len(dict) : dict[i].id # cap.id
    BY <1>2, <2>2 DEF HoldsId
  <2>4. ASSUME Distinct(dict),
               NEW i \in 1..(Len(dict) + 1), NEW j \in 1..(Len(dict) + 1),
               Append(dict, cap)[i].id = Append(dict, cap)[j].id
        PROVE  i = j
    <3>1. CASE i = Len(dict) + 1
      BY <2>2, <2>3, <2>4, <3>1
    <3>2. CASE j = Len(dict) + 1
      BY <2>2, <2>3, <2>4, <3>2
    <3>3. CASE i \in 1..Len(dict) /\ j \in 1..Len(dict)
      BY <2>2, <2>4, <3>3 DEF Distinct
    <3>4. QED
      BY <2>2, <3>1, <3>2, <3>3
  <2>5. Len(Append(dict, cap)) = Len(dict) + 1
    BY DEF Dicts
  <2>6. QED
    BY <1>2, <2>1, <2>2, <2>4, <2>5 DEF Distinct, Dicts
<1>3. QED
  BY <1>1, <1>2

LEMMA RemoveAtProperties ==
  ASSUME NEW S, NEW seq \in Seq(S), NEW i \in 1..Len(seq)
  PROVE  /\ RemoveAt(seq, i) \in Seq(S)
         /\ Len(RemoveAt(seq, i)) = Len(seq) - 1
         /\ \A k \in 1..(Len(seq) - 1) :
              RemoveAt(seq, i)[k] = IF k < i THEN seq[k] ELSE seq[k + 1]
<1> DEFINE s == SubSeq(seq, 1, i - 1)
           t == SubSeq(seq, i + 1, Len(seq))
<1>1. Len(seq) \in Nat /\ \A k \in 1..Len(seq) : seq[k] \in S
  OBVIOUS
<1>2. s \in Seq(S) /\ Len(s) = i - 1
  <2>1. \A k \in 1..(i - 1) : seq[k] \in S
    BY <1>1
  <2>2. QED
    BY <1>1, <2>1, SubSeqProperties
<1>3. \A k \in 1..(i - 1) : s[k] = seq[k]
  <2>1. \A k \in 1..(i - 1) : seq[k] \in S
    BY <1>1
  <2>2. QED
    BY <1>1, <2>1, SubSeqProperties
<1>4. t \in Seq(S) /\ Len(t) = Len(seq) - i
  <2>1. \A k \in (i + 1)..Len(seq) : seq[k] \in S
    BY <1>1
  <2>2. QED
    BY <1>1, <2>1, SubSeqProperties
<1>5. \A k \in 1..(Len(seq) - i) : t[k] = seq[i + k]
  <2>1. \A k \in (i + 1)..Len(seq) : seq[k] \in S
    BY <1>1
  <2>2. QED
    BY <1>1, <2>1, SubSeqProperties
<1> HIDE DEF s, t
<1>6. /\ s \o t \in Seq(S)
      /\ Len(s \o t) = Len(s) + Len(t)
      /\ \A k \in 1..(Len(s) + Len(t)) : (s \o t)[k] = IF k <= Len(s) THEN s[k] ELSE t[k - Len(s)]
  BY <1>2, <1>4, ConcatProperties
<1>7. ASSUME NEW k \in 1..(Len(seq) - 1)
      PROVE  (s \o t)[k] = IF k < i THEN seq[k] ELSE seq[k + 1]
  <2>1. CASE k < i
    BY <1>1, <1>2, <1>3, <1>4, <1>6, <2>1
  <2>2. CASE ~(k < i)
    <3>1. (s \o t)[k] = t[k - (i - 1)]
      BY <1>1, <1>2, <1>4, <1>6, <2>2
    <3>2. k - (i - 1) \in 1..(Len(seq) - i) /\ i + (k - (i - 1)) = k + 1
      BY <1>1, <2>2
    <3>3. QED
      BY <1>5, <2>2, <3>1, <3>2
  <2>3. QED
    BY <2>1, <2>2
<1>8. RemoveAt(seq, i) = s \o t
  BY DEF RemoveAt, s, t
<1>9. Len(s \o t) = Len(seq) - 1 /\ s \o t \in Seq(S)
  BY <1>1, <1>2, <1>4, <1>6
<1>10. QED
  BY <1>7, <1>8, <1>9, Zenon

LEMMA DeleteKeeps ==
  ASSUME NEW dict \in Dicts, NEW id, HoldsId(dict, id)
  PROVE  /\ Position(dict, id) \in 1..Len(dict)
         /\ Delete(dict, id) \in Dicts /\ Len(Delete(dict, id)) = Len(dict) - 1
         /\ Distinct(dict) => Distinct(Delete(dict, id))
<1> DEFINE i == Position(dict, id)
           new == RemoveAt(dict, i)
           from(n) == IF n < i THEN n ELSE n + 1
<1>1. i \in 1..Len(dict) /\ Len(dict) \in Nat /\ DOMAIN dict = 1..Len(dict)
  BY DEF HoldsId, Position, Dicts
<1> HIDE DEF i
<1>2. /\ new \in Seq(Capabilities)
      /\ Len(new) = Len(dict) - 1
      /\ \A k \in 1..(Len(dict) - 1) : new[k] = IF k < i THEN dict[k] ELSE dict[k + 1]
  BY <1>1, RemoveAtProperties DEF Dicts
<1> HIDE DEF new
<1>3. DOMAIN new = 1..(Len(dict) - 1)
  BY <1>1, <1>2
<1>4. \A k \in DOMAIN new : new[k] = dict[from(k)] /\ from(k) \in DOMAIN dict
  BY <1>1, <1>2, <1>3
<1>5. ASSUME Distinct(dict), NEW j \in DOMAIN new, NEW k \in DOMAIN new, new[j].id = new[k].id
      PROVE  j = k
  <2>1. from(j) = from(k)
    <3> HIDE DEF from
    <3>1. QED
      BY <1>4, <1>5 DEF Distinct
  <2>2. QED
    BY <1>1, <1>3, <2>1
<1>6. Delete(dict, id) = new
  BY DEF Delete, new, i
<1>7. QED
  BY <1>1, <1>2, <1>5, <1>6 DEF Distinct, Dicts, i

--------------------------------------------------------------------------------
(* What a load stores.                                                      *)

\* The dict after each of the first n values.
Stages(dict, values, n) ==
  {after \in [0..n -> Dicts] :
     /\ after[0] = dict
     /\ \A k \in 1..n : after[k] = Put(after[k - 1], values[k])}

\* The recursion of PutAll is well founded: there is a function that satisfies it.
LEMMA StagesExist ==
  ASSUME NEW dict \in Dicts, NEW values \in Dicts
  PROVE  \A n \in 0..Len(values) : Stages(dict, values, n) # {}
<1> DEFINE T == {n \in 0..Len(values) : Stages(dict, values, n) = {}}
<1> SUFFICES ASSUME T # {} PROVE FALSE
  OBVIOUS
<1>1. Len(values) \in Nat /\ \A k \in 1..Len(values) : values[k] \in Capabilities
  BY DEF Dicts
<1>2. T \subseteq Nat
  BY <1>1
<1>3. PICK n \in T : \A k \in T : n <= k
  <2> HIDE DEF T
  <2>1. QED
    BY <1>2, LeastNumber
<1>4. n \in 0..Len(values) /\ Stages(dict, values, n) = {}
  BY <1>3
<1>5. n # 0
  <2> SUFFICES ASSUME n = 0 PROVE FALSE
    OBVIOUS
  <2> DEFINE after == [k \in 0..0 |-> dict]
  <2>1. after \in [0..0 -> Dicts] /\ after[0] = dict
    OBVIOUS
  <2>2. after \in Stages(dict, values, 0)
    BY <2>1 DEF Stages
  <2>3. Stages(dict, values, 0) = {}
    BY <1>4
  <2>4. QED
    <3> HIDE DEF after
    <3>1. QED
      BY <2>2, <2>3
<1>6. n - 1 \in 0..Len(values) /\ n - 1 \notin T
  <2>1. n - 1 \in 0..Len(values) /\ ~(n <= n - 1)
    BY <1>1, <1>4, <1>5
  <2> HIDE DEF T
  <2>2. QED
    BY <1>3, <2>1
<1>7. PICK before : before \in Stages(dict, values, n - 1)
  BY <1>6
<1>8. /\ before \in [0..(n - 1) -> Dicts]
      /\ before[0] = dict
      /\ \A k \in 1..(n - 1) : before[k] = Put(before[k - 1], values[k])
  BY <1>7 DEF Stages
<1> DEFINE after == [k \in 0..n |-> IF k = n THEN Put(before[n - 1], values[n]) ELSE before[k]]
<1>9. after \in [0..n -> Dicts]
  <2>1. n - 1 \in 0..(n - 1) /\ n \in 1..Len(values)
    BY <1>1, <1>4, <1>5
  <2>2. before[n - 1] \in Dicts
    BY <1>8, <2>1
  <2>3. Put(before[n - 1], values[n]) \in Dicts
    BY <1>1, <2>1, <2>2, PutKeeps
  <2>4. \A k \in 0..n : k # n => k \in 0..(n - 1)
    BY <1>4
  <2>5. QED
    BY <1>8, <2>3, <2>4
<1>10. after[0] = dict
  BY <1>4, <1>5, <1>8
<1>11. ASSUME NEW k \in 1..n PROVE after[k] = Put(after[k - 1], values[k])
  <2>1. after[k - 1] = before[k - 1]
    BY <1>4, <1>11
  <2>2. CASE k = n
    BY <1>4, <1>5, <2>1, <2>2
  <2>3. CASE k # n
    BY <1>4, <1>8, <1>11, <2>1, <2>3
  <2>4. QED
    BY <2>2, <2>3
<1>12. QED
  <2> HIDE DEF after
  <2>1. after \in Stages(dict, values, n)
    BY <1>9, <1>10, <1>11 DEF Stages
  <2>2. QED
    BY <1>4, <2>1

LEMMA PutAllStages ==
  ASSUME NEW dict \in Dicts, NEW values \in Dicts
  PROVE  \E after \in Stages(dict, values, Len(values)) : PutAll(dict, values) = after[Len(values)]
<1> DEFINE Follows(f) ==
      f = [n \in 0..Len(values) |-> IF n = 0 THEN dict ELSE Put(f[n - 1], values[n])]
<1>1. Len(values) \in Nat
  BY DEF Dicts
<1>2. PICK after \in Stages(dict, values, Len(values)) : TRUE
  BY <1>1, StagesExist
<1>3. Follows(after)
  <2>1. after \in [0..Len(values) -> Dicts]
    BY DEF Stages
  <2>2. after[0] = dict /\ \A k \in 1..Len(values) : after[k] = Put(after[k - 1], values[k])
    BY DEF Stages
  <2>3. \A n \in 0..Len(values) : after[n] = IF n = 0 THEN dict ELSE Put(after[n - 1], values[n])
    BY <1>1, <2>2
  <2>4. QED
    BY <2>1, <2>3
<1> DEFINE run == CHOOSE f : Follows(f)
<1>4. Follows(run)
  <2> HIDE DEF Follows
  <2>1. QED
    BY <1>3
<1>5. PutAll(dict, values) = run[Len(values)]
  BY DEF PutAll
<1> HIDE DEF run
<1>6. run[0] = dict /\ \A k \in 1..Len(values) : run[k] = Put(run[k - 1], values[k])
  BY <1>1, <1>4
<1>7. \A k \in 0..Len(values) : run[k] = after[k]
  <2> DEFINE T == {k \in 0..Len(values) : run[k] # after[k]}
  <2> SUFFICES ASSUME T # {} PROVE FALSE
    OBVIOUS
  <2>1. T \subseteq Nat
    BY <1>1
  <2>2. PICK k \in T : \A m \in T : k <= m
    <3> HIDE DEF T
    <3>1. QED
      BY <2>1, LeastNumber
  <2>3. /\ k \in 0..Len(values) /\ run[k] # after[k]
        /\ after[0] = dict
        /\ \A m \in 1..Len(values) : after[m] = Put(after[m - 1], values[m])
    BY <2>2 DEF Stages
  <2>4. k # 0
    BY <1>6, <2>3
  <2>5. k - 1 \in 0..Len(values) /\ k \in 1..Len(values) /\ k - 1 \notin T
    BY <1>1, <2>2, <2>3, <2>4
  <2>6. run[k - 1] = after[k - 1]
    BY <2>5
  <2>7. QED
    BY <1>6, <2>3, <2>5, <2>6
<1>8. QED
  BY <1>1, <1>2, <1>5, <1>7

\* Putting values keeps a dict a dict; values with distinct ids, put into an empty one,
\* are what it then holds.
LEMMA PutAllKeeps ==
  ASSUME NEW dict \in Dicts, NEW values \in Dicts
  PROVE  /\ PutAll(dict, values) \in Dicts
         /\ Distinct(dict) => Distinct(PutAll(dict, values))
         /\ dict = <<>> /\ Distinct(values) => PutAll(dict, values) = values
<1>1. PICK after \in Stages(dict, values, Len(values)) : PutAll(dict, values) = after[Len(values)]
  BY PutAllStages
<1>2. /\ after \in [0..Len(values) -> Dicts]
      /\ after[0] = dict
      /\ \A k \in 1..Len(values) : after[k] = Put(after[k - 1], values[k])
  BY DEF Stages
<1>3. Len(values) \in Nat /\ values \in Seq(Capabilities)
  BY DEF Dicts
<1>4. \A k \in 1..Len(values) : values[k] \in Capabilities
  BY <1>3
<1> DEFINE Good(n) ==
      /\ Distinct(dict) => Distinct(after[n])
      /\ dict = <<>> /\ Distinct(values) =>
           Len(after[n]) = n /\ \A i \in 1..n : after[n][i] = values[i]
<1>5. Good(0)
  BY <1>2, EmptyDict
<1>6. ASSUME NEW n \in 1..Len(values), Good(n - 1) PROVE Good(n)
  <2> DEFINE old == after[n - 1]
             new == after[n]
  <2>1. old \in Dicts /\ new = Put(old, values[n]) /\ values[n] \in Capabilities
    BY <1>2, <1>3, <1>4
  <2>2. Distinct(old) => Distinct(new)
    BY <2>1, PutKeeps
  <2>3. ASSUME dict = <<>>, Distinct(values)
        PROVE  Len(new) = n /\ \A i \in 1..n : new[i] = values[i]
    <3>1. Len(old) = n - 1 /\ \A i \in 1..(n - 1) : old[i] = values[i]
      BY <1>6, <2>3
    <3> HIDE DEF old, new
    <3>2. ~HoldsId(old, values[n].id)
      <4> SUFFICES ASSUME NEW i \in DOMAIN old, old[i].id = values[n].id PROVE FALSE
        BY DEF HoldsId
      <4>1. i \in 1..(n - 1) /\ i # n /\ i \in DOMAIN values /\ n \in DOMAIN values
        BY <1>3, <2>1, <3>1 DEF Dicts
      <4>2. values[i].id = values[n].id
        BY <3>1, <4>1
      <4>3. QED
        BY <2>3, <4>1, <4>2 DEF Distinct
    <3>3. new = Append(old, values[n]) /\ old \in Seq(Capabilities)
      BY <2>1, <3>2 DEF Put, Dicts
    <3>4. /\ Len(new) = Len(old) + 1
          /\ new[Len(old) + 1] = values[n]
          /\ \A i \in 1..Len(old) : new[i] = old[i]
      BY <2>1, <3>3, AppendProperties
    <3>5. ASSUME NEW i \in 1..n PROVE new[i] = values[i]
      <4>1. CASE i = n
        BY <3>1, <3>4, <4>1
      <4>2. CASE i # n
        BY <3>1, <3>4, <4>2
      <4>3. QED
        BY <4>1, <4>2
    <3>6. QED
      BY <3>1, <3>4, <3>5
  <2> HIDE DEF old, new
  <2>4. Distinct(dict) => Distinct(old)
    BY <1>6 DEF old
  <2>5. QED
    BY <2>2, <2>3, <2>4 DEF new
<1> DEFINE T == {n \in 0..Len(values) : ~Good(n)}
<1>7. T = {}
  <2> HIDE DEF Good
  <2> SUFFICES ASSUME T # {} PROVE FALSE
    OBVIOUS
  <2>1. T \subseteq Nat
    BY <1>3
  <2>2. PICK n \in T : \A m \in T : n <= m
    <3> HIDE DEF T
    <3>1. QED
      BY <2>1, LeastNumber
  <2>3. n \in 0..Len(values) /\ ~Good(n) /\ n # 0
    BY <1>5, <2>2
  <2>4. n \in 1..Len(values) /\ n - 1 \in 0..Len(values) /\ n - 1 \notin T
    BY <1>3, <2>2, <2>3
  <2>5. QED
    BY <1>6, <2>3, <2>4
<1>8. Good(Len(values))
  <2> HIDE DEF Good
  <2>1. QED
    BY <1>3, <1>7
<1>9. after[Len(values)] \in Dicts
  BY <1>2, <1>3
<1>10. dict = <<>> /\ Distinct(values) => after[Len(values)] = values
  BY <1>3, <1>8, <1>9, SeqEqual DEF Dicts
<1>11. QED
  BY <1>1, <1>8, <1>9, <1>10

\* One more value is one more put.
LEMMA PutAllStep ==
  ASSUME NEW dict \in Dicts, NEW values \in Dicts, NEW value \in Capabilities
  PROVE  PutAll(dict, Append(values, value)) = Put(PutAll(dict, values), value)
<1> DEFINE more == Append(values, value)
           n == Len(values)
<1>1. /\ n \in Nat /\ more \in Dicts /\ Len(more) = n + 1 /\ more[n + 1] = value
      /\ \A k \in 1..n : more[k] = values[k]
  BY AppendProperties DEF Dicts
<1> HIDE DEF more, n
<1>2. PICK short \in Stages(dict, values, n) : PutAll(dict, values) = short[n]
  BY PutAllStages DEF n
<1>3. PICK long \in Stages(dict, more, n + 1) : PutAll(dict, more) = long[n + 1]
  BY <1>1, PutAllStages
<1>4. short[0] = dict /\ \A k \in 1..n : short[k] = Put(short[k - 1], values[k])
  BY <1>2 DEF Stages
<1>5. long[0] = dict /\ \A k \in 1..(n + 1) : long[k] = Put(long[k - 1], more[k])
  BY <1>3 DEF Stages
<1>6. \A k \in 0..n : short[k] = long[k]
  <2> DEFINE T == {k \in 0..n : short[k] # long[k]}
  <2> SUFFICES ASSUME T # {} PROVE FALSE
    OBVIOUS
  <2>1. T \subseteq Nat
    BY <1>1
  <2>2. PICK k \in T : \A m \in T : k <= m
    <3> HIDE DEF T
    <3>1. QED
      BY <2>1, LeastNumber
  <2>3. k \in 0..n /\ short[k] # long[k] /\ k # 0
    BY <1>4, <1>5, <2>2
  <2>4. k \in 1..n /\ k \in 1..(n + 1) /\ k - 1 \in 0..n /\ k - 1 \notin T
    BY <1>1, <2>2, <2>3
  <2>5. short[k - 1] = long[k - 1]
    BY <2>4
  <2>6. QED
    BY <1>1, <1>4, <1>5, <2>3, <2>4, <2>5
<1>7. n + 1 \in 1..(n + 1) /\ (n + 1) - 1 = n /\ n \in 0..n
  BY <1>1
<1>8. long[n + 1] = Put(long[n], value)
  BY <1>1, <1>5, <1>7
<1>9. QED
  BY <1>2, <1>3, <1>6, <1>7, <1>8 DEF more

LEMMA NothingPut ==
  ASSUME NEW dict \in Dicts
  PROVE  PutAll(dict, <<>>) = dict
<1>1. PICK after \in Stages(dict, <<>>, Len(<<>>)) : PutAll(dict, <<>>) = after[Len(<<>>)]
  BY EmptyDict, PutAllStages
<1>2. QED
  BY <1>1, EmptyDict DEF Stages

\* There is one place where the records before the first bad one end.
LEMMA GoodPrefixEnds ==
  ASSUME NEW f \in Seq(Records), NEW n \in 0..Len(f),
         \A i \in 1..n : f[i] # Bad, n = Len(f) \/ f[n + 1] = Bad
  PROVE  GoodPrefix(f) = SubSeq(f, 1, n) /\ GoodPrefix(f) \in Dicts
<1> DEFINE Ends(m) == (\A i \in 1..m : f[i] # Bad) /\ (m = Len(f) \/ f[m + 1] = Bad)
           end == CHOOSE m \in 0..Len(f) : Ends(m)
<1>1. Len(f) \in Nat /\ \A i \in 1..Len(f) : f[i] \in Capabilities \cup {Bad}
  BY DEF Records
<1>2. Ends(n)
  OBVIOUS
<1>3. end \in 0..Len(f) /\ Ends(end)
  <2> HIDE DEF Ends
  <2>1. QED
    BY <1>2
<1>4. GoodPrefix(f) = SubSeq(f, 1, end)
  BY DEF GoodPrefix
<1> HIDE DEF end
<1>5. end = n
  <2>1. CASE end < n
    <3>1. end + 1 \in 1..n /\ end # Len(f)
      BY <1>1, <1>3, <2>1
    <3>2. f[end + 1] # Bad
      BY <3>1
    <3>3. QED
      BY <1>3, <3>1, <3>2
  <2>2. CASE n < end
    <3>1. n + 1 \in 1..end /\ n # Len(f)
      BY <1>1, <1>3, <2>2
    <3>2. f[n + 1] # Bad
      BY <1>3, <3>1
    <3>3. QED
      BY <3>1, <3>2
  <2>3. QED
    BY <1>1, <1>3, <2>1, <2>2
<1>6. \A i \in 1..n : f[i] \in Capabilities
  BY <1>1
<1>7. SubSeq(f, 1, n) \in Seq(Capabilities)
  BY <1>1, <1>6, SubSeqProperties
<1>8. QED
  BY <1>4, <1>5, <1>7 DEF Dicts

\* The records before the first bad one are capabilities; without a bad one they are
\* all there is.
LEMMA GoodPrefixKeeps ==
  ASSUME NEW f \in Seq(Records)
  PROVE  GoodPrefix(f) \in Dicts /\ (f \in Dicts => GoodPrefix(f) = f)
<1> DEFINE T == {n \in 0..Len(f) : n = Len(f) \/ f[n + 1] = Bad}
<1>1. Len(f) \in Nat
  OBVIOUS
<1>2. PICK n \in 0..Len(f) : (\A i \in 1..n : f[i] # Bad) /\ (n = Len(f) \/ f[n + 1] = Bad)
  <2>1. T \subseteq Nat /\ Len(f) \in T
    BY <1>1
  <2>2. PICK n \in T : \A k \in T : n <= k
    <3> HIDE DEF T
    <3>1. QED
      BY <2>1, LeastNumber
  <2>3. n \in 0..Len(f) /\ (n = Len(f) \/ f[n + 1] = Bad)
    BY <2>2
  <2>4. ASSUME NEW i \in 1..n, f[i] = Bad PROVE FALSE
    <3>1. i - 1 \in 0..Len(f) /\ (i - 1) + 1 = i /\ ~(n <= i - 1)
      BY <1>1, <2>3
    <3>2. i - 1 \in T
      BY <2>4, <3>1
    <3>3. QED
      BY <2>2, <3>1, <3>2
  <2>5. QED
    BY <2>3, <2>4
<1>3. GoodPrefix(f) \in Dicts
  BY <1>2, GoodPrefixEnds
<1>4. ASSUME f \in Dicts PROVE GoodPrefix(f) = f
  <2>1. \A i \in 1..Len(f) : f[i] # Bad
    BY <1>4, StoreAssumption DEF Dicts
  <2>2. GoodPrefix(f) = SubSeq(f, 1, Len(f))
    BY <1>1, <2>1, GoodPrefixEnds
  <2>3. QED
    BY <2>2, SubSeqFull
<1>5. QED
  BY <1>3, <1>4

LEMMA DictsAreFiles ==
  ASSUME NEW f \in Dicts
  PROVE  f \in Seq(Records) /\ Readable(f)
<1>1. f \in Seq(Records)
  BY SeqMonotonic DEF Dicts, Records
<1>2. QED
  BY <1>1, StoreAssumption DEF Readable

LEMMA LoadedKeeps ==
  ASSUME NEW f \in Files
  PROVE  Loaded(f) \in Dicts /\ Distinct(Loaded(f))
<1>1. CASE Readable(f)
  <2>1. f \in Seq(Records)
    BY <1>1 DEF Readable, Files
  <2>2. QED
    BY <1>1, <2>1, GoodPrefixKeeps, PutAllKeeps, EmptyDict DEF Loaded
<1>2. CASE ~Readable(f)
  BY <1>2, EmptyDict DEF Loaded
<1>3. QED
  BY <1>1, <1>2

LEMMA LoadedWhole ==
  ASSUME NEW f \in Dicts, Distinct(f)
  PROVE  Loaded(f) = f
<1>1. f \in Seq(Records) /\ Readable(f)
  BY DictsAreFiles
<1>2. GoodPrefix(f) = f
  BY <1>1, GoodPrefixKeeps
<1>3. QED
  BY <1>1, <1>2, PutAllKeeps, EmptyDict DEF Loaded

\* What a load leaves as known is what the memory then holds, and the file.
LEMMA LoadSettles ==
  ASSUME NEW f \in Files
  PROVE  /\ AfterLoad(f) \in Dicts \cup {Unknown}
         /\ AfterLoad(f) # Unknown =>
              /\ Loaded(f) = AfterLoad(f)
              /\ f \in {AfterLoad(f)} \cup (IF AfterLoad(f) = <<>> THEN {Absent} ELSE {})
<1>1. Loaded(f) \in Dicts /\ <<>> \in Dicts
  BY LoadedKeeps, EmptyDict
<1>2. CASE f = Absent
  BY <1>1, <1>2 DEF AfterLoad, Loaded, Readable
<1>3. CASE f # Absent
  BY <1>1, <1>3 DEF AfterLoad
<1>4. QED
  BY <1>2, <1>3

--------------------------------------------------------------------------------
(* Types.  The dict's table keeps its values in their order.                *)

DictInv ==
  /\ memory \in Dicts /\ Distinct(memory)
  /\ places \in Seq(Nat) /\ Len(places) = Len(memory)
  /\ entries \in Nat
  /\ \A i, j \in 1..Len(memory) : i < j => places[i] < places[j]
  /\ \A i \in 1..Len(memory) : 0 < places[i] /\ places[i] <= entries

LocalInv ==
  /\ pc \in [Threads -> Steps]
  /\ key \in [Threads -> Ids \cup {Unknown}]
  /\ cursor \in [Threads -> Nat]
  /\ size \in [Threads -> Nat]
  /\ records \in [Threads -> Seq(Records)]
  /\ \A t \in Threads : pc[t] \in SaveSteps => records[t] \in Dicts

RestInv ==
  /\ file \in Files
  /\ up \in BOOLEAN
  /\ flushed \in Dicts \cup {Unknown}
  /\ overlapped \in BOOLEAN
  /\ ops \in 0..MaxOps
  /\ faults \in 0..MaxFaults

StoreInv == DictInv /\ LocalInv /\ RestInv

LEMMA InTurnKeeps ==
  ASSUME NEW n \in Nat
  PROVE  /\ InTurn(n) \in Seq(Nat) /\ Len(InTurn(n)) = n
         /\ \A i, j \in 1..n : i < j => InTurn(n)[i] < InTurn(n)[j]
         /\ \A i \in 1..n : 0 < InTurn(n)[i] /\ InTurn(n)[i] <= n
  BY DEF InTurn

LEMMA PutInv ==
  ASSUME DictInv, NEW cap \in Capabilities, StorePut(cap)
  PROVE  DictInv'
<1>1. /\ memory' \in Dicts /\ Distinct(memory')
      /\ Len(memory') = IF HoldsId(memory, cap.id) THEN Len(memory) ELSE Len(memory) + 1
  BY PutKeeps DEF DictInv, StorePut
<1>2. Len(memory) \in Nat
  BY DEF DictInv, Dicts
<1>3. CASE UNCHANGED table /\ HoldsId(memory, cap.id)
  BY <1>1, <1>3 DEF DictInv, table
<1>4. CASE /\ places' = Append(places, entries + 1) /\ entries' = entries + 1
           /\ ~HoldsId(memory, cap.id)
  <2>1. /\ places' \in Seq(Nat) /\ Len(places') = Len(memory) + 1
        /\ places'[Len(memory) + 1] = entries + 1
        /\ \A i \in 1..Len(memory) : places'[i] = places[i]
    <3>1. entries + 1 \in Nat
      BY DEF DictInv
    <3>2. QED
      BY <1>4, <3>1, AppendProperties DEF DictInv
  <2>2. /\ \A i \in 1..Len(memory) : places[i] \in Nat
        /\ \A i, j \in 1..Len(memory) : i < j => places[i] < places[j]
        /\ \A i \in 1..Len(memory) : 0 < places[i] /\ places[i] <= entries
        /\ entries \in Nat
    BY DEF DictInv
  <2>3. Len(memory') = Len(memory) + 1
    BY <1>1, <1>4
  <2>4. ASSUME NEW i \in 1..(Len(memory) + 1) PROVE 0 < places'[i] /\ places'[i] <= entries + 1
    <3>1. i = Len(memory) + 1 \/ i \in 1..Len(memory)
      BY <1>2
    <3>2. QED
      BY <2>1, <2>2, <3>1
  <2>5. ASSUME NEW i \in 1..(Len(memory) + 1), NEW j \in 1..(Len(memory) + 1), i < j
        PROVE  places'[i] < places'[j]
    <3>1. i \in 1..Len(memory) /\ (j = Len(memory) + 1 \/ j \in 1..Len(memory))
      BY <1>2, <2>5
    <3>2. QED
      BY <2>1, <2>2, <2>5, <3>1
  <2>6. QED
    BY <1>1, <1>4, <2>1, <2>2, <2>3, <2>4, <2>5 DEF DictInv
<1>5. CASE /\ places' = InTurn(Len(memory) + 1) /\ entries' = Len(memory) + 1
           /\ ~HoldsId(memory, cap.id)
  <2>1. Len(memory) + 1 \in Nat /\ Len(memory') = Len(memory) + 1
    BY <1>1, <1>2, <1>5
  <2>2. QED
    BY <1>1, <1>5, <2>1, InTurnKeeps DEF DictInv
<1>6. QED
  BY <1>3, <1>4, <1>5 DEF StorePut

LEMMA DeleteInv ==
  ASSUME DictInv, NEW id, HoldsId(memory, id), StoreDelete(id)
  PROVE  DictInv'
<1> DEFINE i == Position(memory, id)
<1>1. /\ i \in 1..Len(memory) /\ Len(memory) \in Nat
      /\ memory' \in Dicts /\ Distinct(memory') /\ Len(memory') = Len(memory) - 1
  BY DeleteKeeps DEF DictInv, StoreDelete, Dicts
<1>2. places \in Seq(Nat) /\ Len(places) = Len(memory) /\ places' = RemoveAt(places, i)
      /\ entries' = entries /\ entries \in Nat
  BY DEF DictInv, StoreDelete
<1> HIDE DEF i
<1>3. /\ places' \in Seq(Nat) /\ Len(places') = Len(memory) - 1
      /\ \A k \in 1..(Len(memory) - 1) : places'[k] = IF k < i THEN places[k] ELSE places[k + 1]
  <2>1. /\ RemoveAt(places, i) \in Seq(Nat) /\ Len(RemoveAt(places, i)) = Len(places) - 1
        /\ \A k \in 1..(Len(places) - 1) :
             RemoveAt(places, i)[k] = IF k < i THEN places[k] ELSE places[k + 1]
    BY <1>1, <1>2, RemoveAtProperties
  <2>2. QED
    BY <1>2, <2>1
<1>4. /\ \A k \in 1..Len(memory) : places[k] \in Nat
      /\ \A k, j \in 1..Len(memory) : k < j => places[k] < places[j]
      /\ \A k \in 1..Len(memory) : 0 < places[k] /\ places[k] <= entries
  BY DEF DictInv
<1>5. ASSUME NEW k \in 1..(Len(memory) - 1)
      PROVE  0 < places'[k] /\ places'[k] <= entries
  <2>1. k \in 1..Len(memory) /\ k + 1 \in 1..Len(memory)
    BY <1>1
  <2>2. places'[k] = places[k] \/ places'[k] = places[k + 1]
    BY <1>3
  <2>3. QED
    BY <1>4, <2>1, <2>2
<1>6. ASSUME NEW k \in 1..(Len(memory) - 1), NEW j \in 1..(Len(memory) - 1), k < j
      PROVE  places'[k] < places'[j]
  <2>1. {k, k + 1, j, j + 1} \subseteq 1..Len(memory) /\ k < j + 1 /\ k + 1 < j + 1
    BY <1>1, <1>6
  <2>2. CASE j < i
    BY <1>1, <1>3, <1>4, <1>6, <2>1, <2>2
  <2>3. CASE ~(j < i)
    BY <1>1, <1>3, <1>4, <1>6, <2>1, <2>3
  <2>4. QED
    BY <2>2, <2>3
<1>7. QED
  BY <1>1, <1>2, <1>3, <1>5, <1>6 DEF DictInv

LEMMA ClearInv ==
  ASSUME StoreClear
  PROVE  DictInv'
  BY EmptyDict DEF StoreClear, DictInv

LEMMA StoreInit == Init => StoreInv
<1> SUFFICES ASSUME Init PROVE StoreInv
  OBVIOUS
<1>1. DictInv
  BY EmptyDict DEF Init, DictInv
<1>2. LocalInv
  BY DEF Init, LocalInv, Steps, SaveSteps, FileSteps
<1>3. RestInv
  <2>1. MaxOps \in Nat /\ MaxFaults \in Nat
    BY StoreAssumption
  <2>2. Absent \in Files
    BY DEF Files
  <2>3. 0 \in 0..MaxOps /\ 0 \in 0..MaxFaults
    BY <2>1
  <2>4. QED
    BY <2>2, <2>3, EmptyDict DEF Init, RestInv
<1>4. QED
  BY <1>1, <1>2, <1>3 DEF StoreInv

\* What a thread loads next is a capability, and the rest of a record never bad is one.
LEMMA RecordsLoaded ==
  ASSUME LocalInv, NEW t \in Threads, LoadRecord(t)
  PROVE  /\ cursor[t] + 1 \in 1..Len(records[t])
         /\ records[t][cursor[t] + 1] \in Capabilities
<1>1. cursor[t] \in Nat /\ records[t] \in Seq(Records) /\ cursor[t] < Len(records[t])
      /\ records[t][cursor[t] + 1] # Bad
  BY DEF LocalInv, LoadRecord
<1>2. Len(records[t]) \in Nat
  BY <1>1
<1>3. cursor[t] + 1 \in 1..Len(records[t])
  BY <1>1, <1>2
<1>4. records[t][cursor[t] + 1] \in Records
  BY <1>1, <1>3
<1>5. QED
  BY <1>1, <1>3, <1>4 DEF Records

LEMMA DictNext == StoreInv /\ [Next]_vars => DictInv'
<1> SUFFICES ASSUME StoreInv, [Next]_vars PROVE DictInv'
  OBVIOUS
<1>1. DictInv /\ LocalInv /\ RestInv
  BY DEF StoreInv
<1>2. ASSUME UNCHANGED <<memory, table>> PROVE DictInv'
  BY <1>1, <1>2 DEF DictInv, table
<1>3. ASSUME NEW t \in Threads, NEW cap \in Capabilities, PutCapability(t, cap) PROVE DictInv'
  BY <1>1, <1>3, PutInv DEF PutCapability
<1>4. ASSUME NEW t \in Threads, EndDelete(t) PROVE DictInv'
  BY <1>1, <1>4, DeleteInv DEF EndDelete
<1>5. ASSUME NEW t \in Threads, Clear(t) \/ BeginReload(t) PROVE DictInv'
  BY <1>5, ClearInv DEF Clear, BeginReload
<1>6. ASSUME NEW t \in Threads, LoadRecord(t) PROVE DictInv'
  <2>1. records[t][cursor[t] + 1] \in Capabilities
    BY <1>1, <1>6, RecordsLoaded
  <2>2. QED
    BY <1>1, <1>6, <2>1, PutInv DEF LoadRecord
<1>7. ASSUME Restart PROVE DictInv'
  <2>1. memory' \in Dicts /\ Distinct(memory')
    BY <1>1, <1>7, LoadedKeeps, EmptyDict DEF Restart, RestInv
  <2>2. Len(memory') \in Nat
    BY <2>1 DEF Dicts
  <2>3. QED
    BY <1>7, <2>1, <2>2, InTurnKeeps DEF Restart, DictInv
<1>8. ASSUME NEW t \in Threads,
             \/ \E id \in Ids : BeginDelete(t, id)
             \/ RaiseKeyError(t) \/ Save(t)
             \/ BeginDump(t) \/ DumpValue(t) \/ EndDump(t) \/ DumpRaises(t)
             \/ Truncate(t) \/ Write(t) \/ SaveFails(t)
             \/ ReadFile(t) \/ ReadFails(t) \/ EndLoad(t)
      PROVE  UNCHANGED <<memory, table>>
  BY <1>8 DEF BeginDelete, RaiseKeyError, Save, BeginDump, DumpValue, EndDump, DumpRaises,
              Truncate, Write, SaveFails, ReadFile, ReadFails, EndLoad
<1>9. ASSUME Crash \/ (\E f \in Edits : Edit(f)) \/ UNCHANGED vars
      PROVE  UNCHANGED <<memory, table>>
  BY <1>9 DEF Crash, Edit, vars
<1>10. QED
  BY <1>2, <1>3, <1>4, <1>5, <1>6, <1>7, <1>8, <1>9 DEF Next, Operation

\* A step of one thread from one place to another, its local variables typed.
LEMMA Moved ==
  ASSUME LocalInv, NEW t \in Threads, NEW step \in Steps, NEW id \in Ids \cup {Unknown},
         NEW c \in Nat, NEW n \in Nat, NEW seq \in Seq(Records),
         step \in SaveSteps => seq \in Dicts,
         pc' = [pc EXCEPT ![t] = step], key' = [key EXCEPT ![t] = id],
         cursor' = [cursor EXCEPT ![t] = c], size' = [size EXCEPT ![t] = n],
         records' = [records EXCEPT ![t] = seq]
  PROVE  LocalInv'
<1>1. /\ pc' \in [Threads -> Steps] /\ key' \in [Threads -> Ids \cup {Unknown}]
      /\ cursor' \in [Threads -> Nat] /\ size' \in [Threads -> Nat]
      /\ records' \in [Threads -> Seq(Records)]
  BY DEF LocalInv
<1>2. ASSUME NEW u \in Threads, pc'[u] \in SaveSteps PROVE records'[u] \in Dicts
  <2>1. CASE u = t
    BY <1>2, <2>1 DEF LocalInv
  <2>2. CASE u # t
    BY <1>2, <2>2 DEF LocalInv
  <2>3. QED
    BY <2>1, <2>2
<1>3. QED
  BY <1>1, <1>2 DEF LocalInv

\* The variables a step leaves alone are those it writes back.
LEMMA Stayed ==
  ASSUME LocalInv, NEW t \in Threads
  PROVE  /\ pc = [pc EXCEPT ![t] = pc[t]] /\ pc[t] \in Steps
         /\ key = [key EXCEPT ![t] = key[t]] /\ key[t] \in Ids \cup {Unknown}
         /\ cursor = [cursor EXCEPT ![t] = cursor[t]] /\ cursor[t] \in Nat
         /\ size = [size EXCEPT ![t] = size[t]] /\ size[t] \in Nat
         /\ records = [records EXCEPT ![t] = records[t]] /\ records[t] \in Seq(Records)
         /\ pc[t] \in SaveSteps => records[t] \in Dicts
  BY DEF LocalInv

LEMMA StepNames ==
  /\ SaveSteps = {"dumping", "dumped", "writing"}
  /\ FileSteps = {"dumping", "dumped", "writing", "opening", "loading"}
  /\ Steps = {"idle", "deleting", "flushing", "dumping", "dumped", "writing", "opening", "loading"}
  BY DEF SaveSteps, FileSteps, Steps

LEMMA Returned ==
  ASSUME LocalInv, NEW t \in Threads, Return(t)
  PROVE  LocalInv'
<1>1. <<>> \in Seq(Records) /\ <<>> \in Dicts /\ 0 \in Nat /\ "idle" \in Steps
      /\ Unknown \in Ids \cup {Unknown}
  BY EmptyDict, StepNames
<1>2. QED
  BY <1>1, Moved DEF Return, GoTo

LEMMA LocalNext == StoreInv /\ [Next]_vars => LocalInv'
<1> SUFFICES ASSUME StoreInv, [Next]_vars PROVE LocalInv'
  OBVIOUS
<1>1. DictInv /\ LocalInv /\ RestInv
  BY DEF StoreInv
<1>2. ASSUME UNCHANGED <<pc, locals>> PROVE LocalInv'
  BY <1>1, <1>2 DEF LocalInv, locals
<1>3. ASSUME NEW t \in Threads, NEW step \in Steps, NEW id \in Ids \cup {Unknown},
             step \notin SaveSteps \/ pc[t] \in SaveSteps,
             GoTo(t, step), key' = [key EXCEPT ![t] = id], UNCHANGED <<cursor, size, records>>
      PROVE  LocalInv'
  <2>1. /\ cursor' = [cursor EXCEPT ![t] = cursor[t]] /\ cursor[t] \in Nat
        /\ size' = [size EXCEPT ![t] = size[t]] /\ size[t] \in Nat
        /\ records' = [records EXCEPT ![t] = records[t]] /\ records[t] \in Seq(Records)
        /\ pc[t] \in SaveSteps => records[t] \in Dicts
    BY <1>1, <1>3, Stayed
  <2>2. step \in SaveSteps => records[t] \in Dicts
    BY <1>3, <2>1
  <2>3. pc' = [pc EXCEPT ![t] = step]
    BY <1>3 DEF GoTo
  <2>4. QED
    BY <1>1, <1>3, <2>1, <2>2, <2>3, Moved
<1>4. ASSUME NEW t \in Threads, NEW step \in Steps,
             step \notin SaveSteps \/ pc[t] \in SaveSteps,
             GoTo(t, step), UNCHANGED locals
      PROVE  LocalInv'
  <2>1. key' = [key EXCEPT ![t] = key[t]] /\ key[t] \in Ids \cup {Unknown}
    BY <1>1, <1>4, Stayed DEF locals
  <2>2. QED
    BY <1>3, <1>4, <2>1 DEF locals
<1>5. ASSUME NEW t \in Threads,
             \/ \E cap \in Capabilities : PutCapability(t, cap)
             \/ Clear(t) \/ Save(t) \/ BeginReload(t)
      PROVE  LocalInv'
  <2>1. UNCHANGED locals /\ (GoTo(t, "flushing") \/ GoTo(t, "opening"))
    BY <1>5 DEF PutCapability, Clear, Save, BeginReload
  <2>2. QED
    BY <1>4, <2>1, StepNames
<1>6. ASSUME NEW t \in Threads, NEW id \in Ids, BeginDelete(t, id) PROVE LocalInv'
  <2>1. CASE HoldsId(memory, id)
    BY <1>3, <1>6, <2>1, StepNames DEF BeginDelete
  <2>2. CASE ~HoldsId(memory, id)
    BY <1>2, <1>6, <2>2 DEF BeginDelete, locals
  <2>3. QED
    BY <2>1, <2>2
<1>7. ASSUME NEW t \in Threads, EndDelete(t) PROVE LocalInv'
  BY <1>3, <1>7, StepNames DEF EndDelete
<1>8. ASSUME NEW t \in Threads, BeginDump(t) PROVE LocalInv'
  <2>1. Len(memory) \in Nat /\ <<>> \in Seq(Records) /\ <<>> \in Dicts /\ "dumping" \in Steps
    BY <1>1, EmptyDict, StepNames DEF DictInv, Dicts
  <2>2. key' = [key EXCEPT ![t] = key[t]] /\ key[t] \in Ids \cup {Unknown}
    BY <1>1, <1>8, Stayed DEF BeginDump
  <2>3. QED
    BY <1>1, <1>8, <2>1, <2>2, Moved DEF BeginDump, GoTo
<1>9. ASSUME NEW t \in Threads, DumpValue(t) PROVE LocalInv'
  <2>1. PICK i \in Unread(t) :
          /\ records' = [records EXCEPT ![t] = Append(records[t], memory[i])]
          /\ cursor' = [cursor EXCEPT ![t] = places[i]]
    BY <1>9 DEF DumpValue
  <2>2. records[t] \in Seq(Capabilities) /\ "dumping" \in Steps /\ pc[t] = "dumping"
    BY <1>1, <1>9, StepNames DEF DumpValue, LocalInv, Dicts
  <2>3. i \in DOMAIN places /\ memory[i] \in Capabilities /\ places[i] \in Nat
    BY <1>1, <2>1 DEF Unread, DictInv, Dicts
  <2>4. Append(records[t], memory[i]) \in Dicts
    BY <2>2, <2>3 DEF Dicts
  <2>5. Append(records[t], memory[i]) \in Seq(Records)
    BY <2>4, DictsAreFiles
  <2>6. /\ pc' = [pc EXCEPT ![t] = "dumping"]
        /\ key' = [key EXCEPT ![t] = key[t]] /\ key[t] \in Ids \cup {Unknown}
        /\ size' = [size EXCEPT ![t] = size[t]] /\ size[t] \in Nat
    BY <1>1, <1>9, <2>2, Stayed DEF DumpValue
  <2>7. QED
    BY <1>1, <2>1, <2>2, <2>3, <2>4, <2>5, <2>6, Moved
<1>10. ASSUME NEW t \in Threads, EndDump(t) \/ Truncate(t) PROVE LocalInv'
  <2>1. UNCHANGED locals /\ pc[t] \in SaveSteps /\ (GoTo(t, "dumped") \/ GoTo(t, "writing"))
    BY <1>10, StepNames DEF EndDump, Truncate
  <2>2. QED
    BY <1>4, <2>1, StepNames
<1>11. ASSUME NEW t \in Threads,
              RaiseKeyError(t) \/ DumpRaises(t) \/ Write(t) \/ SaveFails(t) \/ ReadFails(t) \/ EndLoad(t)
       PROVE  LocalInv'
  <2>1. Return(t)
    BY <1>11 DEF RaiseKeyError, DumpRaises, Write, SaveFails, ReadFails, EndLoad
  <2>2. QED
    BY <1>1, <2>1, Returned
<1>12. ASSUME NEW t \in Threads, ReadFile(t) PROVE LocalInv'
  <2>1. CASE Readable(file)
    <3>1. file \in Seq(Records) /\ "loading" \in Steps \ SaveSteps /\ 0 \in Nat
      BY <1>1, <2>1, StepNames DEF RestInv, Files, Readable
    <3>2. /\ key' = [key EXCEPT ![t] = key[t]] /\ key[t] \in Ids \cup {Unknown}
          /\ size' = [size EXCEPT ![t] = size[t]] /\ size[t] \in Nat
      BY <1>1, <1>12, <2>1, Stayed DEF ReadFile
    <3>3. QED
      BY <1>1, <1>12, <2>1, <3>1, <3>2, Moved DEF ReadFile, GoTo
  <2>2. CASE ~Readable(file)
    BY <1>1, <1>12, <2>2, Returned DEF ReadFile
  <2>3. QED
    BY <2>1, <2>2
<1>13. ASSUME NEW t \in Threads, LoadRecord(t) PROVE LocalInv'
  <2>1. cursor' = [cursor EXCEPT ![t] = cursor[t] + 1] /\ cursor[t] + 1 \in Nat
    BY <1>1, <1>13 DEF LoadRecord, LocalInv
  <2>2. /\ pc' = [pc EXCEPT ![t] = pc[t]] /\ pc[t] \in Steps
        /\ key' = [key EXCEPT ![t] = key[t]] /\ key[t] \in Ids \cup {Unknown}
        /\ size' = [size EXCEPT ![t] = size[t]] /\ size[t] \in Nat
        /\ records' = [records EXCEPT ![t] = records[t]] /\ records[t] \in Seq(Records)
        /\ pc[t] \in SaveSteps => records[t] \in Dicts
    BY <1>1, <1>13, Stayed DEF LoadRecord
  <2>3. QED
    BY <1>1, <2>1, <2>2, Moved
<1>14. CASE Crash
  <2>1. <<>> \in Seq(Records) /\ "idle" \in Steps \ SaveSteps
    BY StepNames
  <2>2. QED
    BY <1>14, <2>1 DEF Crash, LocalInv
<1>15. ASSUME Restart \/ (\E f \in Edits : Edit(f)) \/ UNCHANGED vars
       PROVE  UNCHANGED <<pc, locals>>
  BY <1>15 DEF Restart, Edit, vars
<1>16. QED
  BY <1>2, <1>5, <1>6, <1>7, <1>8, <1>9, <1>10, <1>11, <1>12, <1>13, <1>14, <1>15
     DEF Next, Operation

LEMMA RestNext == StoreInv /\ [Next]_vars => RestInv'
<1> SUFFICES ASSUME StoreInv, [Next]_vars PROVE RestInv'
  OBVIOUS
<1>1. DictInv /\ LocalInv /\ RestInv
  BY DEF StoreInv
<1>2. MaxOps \in Nat /\ MaxFaults \in Nat
  BY StoreAssumption
<1>3. ASSUME file' \in Files, up' \in BOOLEAN, flushed' \in Dicts \cup {Unknown},
             overlapped' \in BOOLEAN,
             ops' = ops \/ (ops < MaxOps /\ ops' = ops + 1),
             faults' = faults \/ (faults < MaxFaults /\ faults' = faults + 1)
      PROVE  RestInv'
  <2>1. ops \in 0..MaxOps /\ faults \in 0..MaxFaults
    BY <1>1 DEF RestInv
  <2>2. ops' \in 0..MaxOps /\ faults' \in 0..MaxFaults
    BY <1>2, <1>3, <2>1
  <2>3. QED
    BY <1>3, <2>2 DEF RestInv
<1>4. /\ file \in Files /\ up \in BOOLEAN /\ flushed \in Dicts \cup {Unknown}
      /\ overlapped \in BOOLEAN /\ {Absent, Empty, Torn} \subseteq Files
  BY <1>1 DEF RestInv, Files
<1>5. ASSUME NEW t \in Threads,
             \/ \E cap \in Capabilities : PutCapability(t, cap)
             \/ \E id \in Ids : BeginDelete(t, id)
             \/ EndDelete(t) \/ RaiseKeyError(t) \/ Clear(t) \/ Save(t)
             \/ BeginDump(t) \/ DumpValue(t) \/ EndDump(t) \/ DumpRaises(t)
             \/ BeginReload(t) \/ LoadRecord(t)
      PROVE  RestInv'
  <2>1. UNCHANGED <<file, up, flushed, faults>>
    BY <1>5 DEF PutCapability, BeginDelete, EndDelete, RaiseKeyError, Clear, Save, BeginDump,
                DumpValue, EndDump, DumpRaises, BeginReload, LoadRecord
  <2>2. ops' = ops \/ (ops < MaxOps /\ ops' = ops + 1)
    BY <1>5 DEF PutCapability, BeginDelete, EndDelete, RaiseKeyError, Clear, Save, BeginDump,
                DumpValue, EndDump, DumpRaises, BeginReload, LoadRecord, Call
  <2>3. overlapped' \in BOOLEAN
    BY <1>4, <1>5 DEF PutCapability, BeginDelete, EndDelete, RaiseKeyError, Clear, Save, BeginDump,
                DumpValue, EndDump, DumpRaises, BeginReload, LoadRecord
  <2>4. QED
    BY <1>3, <1>4, <2>1, <2>2, <2>3
<1>6. ASSUME NEW t \in Threads, Truncate(t) PROVE RestInv'
  BY <1>3, <1>4, <1>6 DEF Truncate
<1>7. ASSUME NEW t \in Threads, Write(t) PROVE RestInv'
  <2>1. records[t] \in Dicts
    BY <1>1, <1>7, StepNames DEF LocalInv, Write
  <2>2. records[t] \in Files
    BY <2>1, DictsAreFiles DEF Files
  <2>3. file' \in Files
    BY <1>4, <1>7, <2>2 DEF Write
  <2>4. QED
    BY <1>3, <1>4, <1>7, <2>1, <2>3 DEF Write
<1>8. MaybeTorn => file' \in Files
  BY <1>4 DEF MaybeTorn
<1>9. ASSUME NEW t \in Threads, SaveFails(t) PROVE RestInv'
  <2>1. file' \in Files
    BY <1>4, <1>8, <1>9 DEF SaveFails
  <2>2. QED
    BY <1>3, <1>4, <1>9, <2>1 DEF SaveFails
<1>10. AfterLoad(file) \in Dicts \cup {Unknown}
  BY <1>4, LoadSettles
<1>11. ASSUME NEW t \in Threads, ReadFile(t) \/ ReadFails(t) \/ EndLoad(t) PROVE RestInv'
  <2>1. flushed' \in Dicts \cup {Unknown}
    BY <1>4, <1>10, <1>11 DEF ReadFile, ReadFails, EndLoad
  <2>2. UNCHANGED <<file, up, overlapped, ops>>
        /\ (faults' = faults \/ (faults < MaxFaults /\ faults' = faults + 1))
    BY <1>11 DEF ReadFile, ReadFails, EndLoad
  <2>3. QED
    BY <1>3, <1>4, <2>1, <2>2
<1>12. CASE Crash
  BY <1>3, <1>4, <1>8, <1>12 DEF Crash
<1>13. CASE Restart
  <2>1. flushed' \in Dicts \cup {Unknown} /\ up' \in BOOLEAN /\ overlapped' \in BOOLEAN
    BY <1>10, <1>13 DEF Restart
  <2>2. QED
    BY <1>3, <1>4, <1>13, <2>1 DEF Restart
<1>14. ASSUME NEW f \in Edits, Edit(f) PROVE RestInv'
  <2>1. f \in Files
    BY StoreAssumption DEF Files
  <2>2. QED
    BY <1>3, <1>4, <1>14, <2>1 DEF Edit
<1>15. CASE UNCHANGED vars
  BY <1>3, <1>4, <1>15 DEF vars
<1>16. QED
  BY <1>5, <1>6, <1>7, <1>9, <1>11, <1>12, <1>13, <1>14, <1>15 DEF Next, Operation

LEMMA StoreInvHolds == Spec => []StoreInv
<1>1. StoreInv /\ [Next]_vars => StoreInv'
  BY DictNext, LocalNext, RestNext DEF StoreInv
<1>2. QED
  BY <1>1, StoreInit, PTL DEF Spec

\* The memory with its table, the file and what each thread holds in its hands keep their
\* types, whatever edited files hold.
THEOREM StoreTypeCorrect == Spec => []TypeOK
<1>1. StoreInv => TypeOK
  BY DEF StoreInv, DictInv, LocalInv, RestInv, TypeOK
<1>2. QED
  BY <1>1, StoreInvHolds, PTL

--------------------------------------------------------------------------------
(* The file follows the memory.  A thread that has changed the memory and   *)
(* not yet begun its flush owes one: until then nothing is promised.  When  *)
(* none is owed, the one thread that is in _save or reload knows the memory. *)

AtFile(t) == pc[t] \in FileSteps
Owed == \E t \in Threads : pc[t] = "flushing"

\* No thread but t is at the file.
Sole(t) == \A u \in Threads : AtFile(u) => u = t

DumpedSoFar(t) ==
  /\ size[t] = Len(memory)
  /\ Len(records[t]) <= Len(memory)
  /\ \A i \in 1..Len(records[t]) : records[t][i] = memory[i]
  /\ cursor[t] = IF Len(records[t]) = 0 THEN 0 ELSE places[Len(records[t])]

LoadedSoFar(t) ==
  /\ cursor[t] <= Len(records[t])
  /\ \A i \in 1..cursor[t] : records[t][i] # Bad
  /\ memory = PutAll(<<>>, SubSeq(records[t], 1, cursor[t]))

InStep(t) ==
  /\ pc[t] = "dumping" => DumpedSoFar(t)
  /\ pc[t] \in {"dumped", "writing"} => records[t] = memory
  /\ pc[t] = "opening" => memory = <<>>
  /\ pc[t] = "loading" => LoadedSoFar(t)

Agrees ==
  flushed # Unknown =>
    memory = flushed /\ file \in {memory} \cup (IF memory = <<>> THEN {Absent} ELSE {})

FileInv ==
  /\ ~up => \A t \in Threads : pc[t] = "idle"
  /\ up /\ ~overlapped =>
       /\ \A t \in Threads : AtFile(t) => Sole(t)
       /\ \A t \in Threads : pc[t] = "writing" => file = Empty
       /\ Owed \/ \A t \in Threads : InStep(t)
       /\ Owed \/ (\E t \in Threads : AtFile(t)) \/ Agrees

LEMMA FileInit == Init => FileInv
<1> SUFFICES ASSUME Init PROVE FileInv
  OBVIOUS
<1>1. \A t \in Threads : pc[t] = "idle"
  BY DEF Init
<1>2. Agrees
  BY DEF Init, Agrees
<1>3. \A t \in Threads : InStep(t) /\ ~AtFile(t)
  BY <1>1, StepNames DEF InStep, AtFile
<1>4. QED
  BY <1>1, <1>2, <1>3 DEF FileInv

LEMMA FileFollowsInv == FileInv => FileFollowsMemory
<1> SUFFICES ASSUME FileInv, ~overlapped, up, \A t \in Threads : pc[t] = "idle" PROVE Agrees
  BY DEF FileFollowsMemory, FileConsistent, Quiet, Agrees
<1>1. ~Owed /\ \A t \in Threads : ~AtFile(t)
  BY StepNames DEF Owed, AtFile
<1>2. QED
  BY <1>1 DEF FileInv

\* What thread t finds when it takes a step.
LEMMA Found ==
  ASSUME FileInv, up, ~overlapped, NEW t \in Threads
  PROVE  /\ AtFile(t) => Sole(t)
         /\ ~Shared(t) => Sole(t)
         /\ pc[t] = "writing" => file = Empty
         /\ Owed \/ InStep(t)
  BY DEF FileInv, Shared, Sole, AtFile

\* A thread that was not itself the one to flush leaves what is owed.
LEMMA OwedStays ==
  ASSUME LocalInv, NEW t \in Threads, NEW step \in Steps,
         pc' = [pc EXCEPT ![t] = step], pc[t] # "flushing", Owed
  PROVE  Owed'
<1>1. PICK u \in Threads : pc[u] = "flushing"
  BY DEF Owed
<1>2. pc'[u] = "flushing"
  BY <1>1 DEF LocalInv
<1>3. QED
  BY <1>2 DEF Owed

\* A thread that is alone at the file goes on, or leaves it.
LEMMA Alone ==
  ASSUME LocalInv, NEW t \in Threads, NEW step \in Steps, Sole(t), up',
         pc' = [pc EXCEPT ![t] = step],
         step = "writing" => file' = Empty,
         Owed' \/ step \notin FileSteps \/ InStep(t)',
         Owed' \/ step \in FileSteps \/ Agrees'
  PROVE  FileInv'
<1>1. pc'[t] = step /\ \A u \in Threads : u # t => pc'[u] = pc[u]
  BY DEF LocalInv
<1>2. Sole(t)'
  BY <1>1 DEF Sole, AtFile
<1>3. \A u \in Threads : AtFile(u)' => Sole(u)'
  BY <1>2 DEF Sole
<1>4. \A u \in Threads : pc'[u] = "writing" => file' = Empty
  <2>1. \A u \in Threads : pc'[u] = "writing" => u = t
    BY <1>2, StepNames DEF Sole, AtFile
  <2>2. QED
    BY <1>1, <2>1
<1>5. ASSUME ~Owed', NEW u \in Threads PROVE InStep(u)'
  <2>1. CASE pc'[u] \in FileSteps
    <3>1. u = t
      BY <1>2, <2>1 DEF Sole, AtFile
    <3>2. QED
      BY <1>1, <1>5, <2>1, <3>1
  <2>2. CASE pc'[u] \notin FileSteps
    BY <2>2, StepNames DEF InStep
  <2>3. QED
    BY <2>1, <2>2
<1>6. Owed' \/ (\E u \in Threads : AtFile(u)') \/ Agrees'
  BY <1>1 DEF AtFile
<1>7. QED
  BY <1>3, <1>4, <1>5, <1>6 DEF FileInv

\* A thread that has changed the memory owes a flush.
LEMMA Owes ==
  ASSUME LocalInv, FileInv, NEW t \in Threads, pc' = [pc EXCEPT ![t] = "flushing"],
         up, UNCHANGED <<up, file, overlapped>>
  PROVE  FileInv'
<1>1. pc'[t] = "flushing" /\ \A u \in Threads : u # t => pc'[u] = pc[u]
  BY DEF LocalInv
<1>2. Owed'
  BY <1>1 DEF Owed
<1>3. \A u \in Threads : AtFile(u)' => AtFile(u)
  BY <1>1, StepNames DEF AtFile
<1>4. \A u \in Threads : pc'[u] = "writing" => pc[u] = "writing"
  BY <1>1
<1>5. ASSUME ~overlapped, NEW u \in Threads, AtFile(u)' PROVE Sole(u)'
  <2>1. Sole(u)
    BY <1>3, <1>5 DEF FileInv
  <2>2. QED
    BY <1>3, <2>1 DEF Sole
<1>6. QED
  BY <1>2, <1>4, <1>5 DEF FileInv

\* What a thread does that neither changes anything nor is at the file.
LEMMA Aside ==
  ASSUME LocalInv, FileInv, NEW t \in Threads, NEW step \in {"idle", "deleting"},
         pc' = [pc EXCEPT ![t] = step], pc[t] \in {"idle", "deleting"},
         \A u \in Threads : u # t =>
           cursor'[u] = cursor[u] /\ size'[u] = size[u] /\ records'[u] = records[u],
         up, UNCHANGED <<memory, places, file, up, flushed, overlapped>>
  PROVE  FileInv'
<1>1. pc'[t] = step /\ \A u \in Threads : u # t => pc'[u] = pc[u]
  BY DEF LocalInv
<1>2. \A u \in Threads : AtFile(u)' <=> AtFile(u)
  BY <1>1, StepNames DEF AtFile
<1>3. \A u \in Threads : Sole(u)' <=> Sole(u)
  BY <1>2 DEF Sole
<1>4. Owed => Owed'
  BY <1>1 DEF Owed
<1>5. ASSUME NEW u \in Threads, InStep(u) PROVE InStep(u)'
  <2>1. CASE u = t
    BY <1>1, <2>1 DEF InStep
  <2>2. CASE u # t
    BY <1>1, <1>5, <2>2 DEF InStep, DumpedSoFar, LoadedSoFar
  <2>3. QED
    BY <2>1, <2>2
<1>6. \A u \in Threads : pc'[u] = "writing" => pc[u] = "writing"
  BY <1>1
<1>7. Agrees => Agrees'
  BY DEF Agrees
<1>8. QED
  BY <1>2, <1>3, <1>4, <1>5, <1>6, <1>7 DEF FileInv

\* While t dumps an undisturbed memory, the values it has not read are those behind
\* the ones it has.
LEMMA UnreadBehind ==
  ASSUME DictInv, LocalInv, NEW t \in Threads, DumpedSoFar(t)
  PROVE  /\ Len(records[t]) \in 0..Len(memory)
         /\ Unread(t) = (Len(records[t]) + 1)..Len(memory)
<1> DEFINE n == Len(records[t])
<1>1. /\ n \in 0..Len(memory) /\ Len(memory) \in Nat
      /\ cursor[t] = IF n = 0 THEN 0 ELSE places[n]
  <2>1. records[t] \in Seq(Records) /\ memory \in Seq(Capabilities)
    BY DEF LocalInv, DictInv, Dicts
  <2>2. QED
    BY <2>1 DEF DumpedSoFar
<1> HIDE DEF n
<1>2. /\ DOMAIN places = 1..Len(memory)
      /\ \A i \in 1..Len(memory) : places[i] \in Nat /\ 0 < places[i]
      /\ \A i, j \in 1..Len(memory) : i < j => places[i] < places[j]
  BY DEF DictInv
<1>3. ASSUME NEW i \in 1..Len(memory) PROVE places[i] > cursor[t] <=> i >= n + 1
  <2>1. CASE n = 0
    BY <1>1, <1>2, <2>1
  <2>2. CASE n # 0
    <3>1. n \in 1..Len(memory) /\ cursor[t] = places[n]
      BY <1>1, <2>2
    <3>2. CASE i < n
      BY <1>1, <1>2, <3>1, <3>2
    <3>3. CASE i = n
      BY <1>1, <1>2, <3>1, <3>3
    <3>4. CASE i > n
      BY <1>1, <1>2, <3>1, <3>4
    <3>5. QED
      BY <1>1, <3>2, <3>3, <3>4
  <2>3. QED
    BY <2>1, <2>2
<1>4. Unread(t) = (n + 1)..Len(memory)
  BY <1>1, <1>2, <1>3 DEF Unread
<1>5. QED
  BY <1>1, <1>4 DEF n

LEMMA ValueDumped ==
  ASSUME DictInv, LocalInv, NEW t \in Threads, DumpedSoFar(t), DumpValue(t)
  PROVE  DumpedSoFar(t)'
<1> DEFINE n == Len(records[t])
<1>1. n \in 0..Len(memory) /\ Unread(t) = (n + 1)..Len(memory) /\ Len(memory) \in Nat
  BY UnreadBehind DEF DictInv, Dicts
<1>2. PICK i \in Unread(t) :
        /\ \A j \in Unread(t) : i <= j
        /\ records' = [records EXCEPT ![t] = Append(records[t], memory[i])]
        /\ cursor' = [cursor EXCEPT ![t] = places[i]]
  BY DEF DumpValue
<1>3. i = n + 1 /\ i \in 1..Len(memory)
  <2> HIDE DEF n
  <2>1. i \in (n + 1)..Len(memory) /\ n \in Nat
    BY <1>1, <1>2
  <2>2. n + 1 \in (n + 1)..Len(memory)
    BY <1>1, <2>1
  <2>3. i <= n + 1
    BY <1>1, <1>2, <2>2
  <2>4. QED
    BY <1>1, <2>1, <2>3
<1>4. records'[t] = Append(records[t], memory[i]) /\ cursor'[t] = places[i]
      /\ size'[t] = size[t] /\ UNCHANGED <<memory, places>>
  BY <1>2 DEF LocalInv, DumpValue, table
<1>5. records[t] \in Seq(Records) /\ memory[i] \in Records
  BY <1>3 DEF LocalInv, DictInv, Dicts, Records
<1>6. /\ Len(records'[t]) = n + 1 /\ records'[t][n + 1] = memory[i]
      /\ \A k \in 1..n : records'[t][k] = records[t][k]
  BY <1>4, <1>5, AppendProperties
<1>7. size[t] = Len(memory) /\ \A k \in 1..n : records[t][k] = memory[k]
  BY DEF DumpedSoFar
<1> HIDE DEF n
<1>8. \A k \in 1..(n + 1) : records'[t][k] = memory[k]
  <2> SUFFICES ASSUME NEW k \in 1..(n + 1) PROVE records'[t][k] = memory[k]
    OBVIOUS
  <2>1. k = n + 1 \/ k \in 1..n
    BY <1>1
  <2>2. QED
    BY <1>3, <1>6, <1>7, <2>1
<1>9. n + 1 # 0 /\ n + 1 <= Len(memory)
  BY <1>1, <1>3
<1>10. QED
  BY <1>3, <1>4, <1>6, <1>7, <1>8, <1>9 DEF DumpedSoFar

\* At the end the thread holds the memory.
LEMMA AllDumped ==
  ASSUME DictInv, LocalInv, NEW t \in Threads, pc[t] = "dumping", DumpedSoFar(t), Unread(t) = {}
  PROVE  records[t] = memory
<1>1. Len(records[t]) \in 0..Len(memory) /\ (Len(records[t]) + 1)..Len(memory) = {}
      /\ Len(memory) \in Nat
  <2>1. Len(memory) \in Nat
    BY DEF DictInv, Dicts
  <2>2. QED
    BY <2>1, UnreadBehind
<1>2. Len(records[t]) = Len(memory)
  BY <1>1
<1>3. records[t] \in Seq(Capabilities) /\ memory \in Seq(Capabilities)
  BY StepNames DEF LocalInv, DictInv, Dicts
<1>4. \A i \in 1..Len(memory) : records[t][i] = memory[i]
  BY <1>2 DEF DumpedSoFar
<1>5. QED
  BY <1>2, <1>3, <1>4, SeqEqual

\* A dump of an undisturbed memory does not raise.
LEMMA NoRaise ==
  ASSUME DictInv, LocalInv, NEW t \in Threads, DumpedSoFar(t)
  PROVE  ~DumpRaises(t)
<1>1. Len(records[t]) \in 0..Len(memory) /\ Unread(t) = (Len(records[t]) + 1)..Len(memory)
      /\ Len(memory) \in Nat /\ size[t] = Len(memory)
  BY UnreadBehind DEF DictInv, Dicts, DumpedSoFar
<1>2. QED
  BY <1>1 DEF DumpRaises

\* The records a thread has loaded are capabilities.
LEMMA PassedTyped ==
  ASSUME LocalInv, NEW t \in Threads, LoadedSoFar(t)
  PROVE  /\ cursor[t] \in 0..Len(records[t])
         /\ records[t] \in Seq(Records) /\ Len(records[t]) \in Nat
         /\ SubSeq(records[t], 1, cursor[t]) \in Dicts
<1>1. /\ records[t] \in Seq(Records) /\ Len(records[t]) \in Nat
      /\ cursor[t] \in Nat /\ cursor[t] <= Len(records[t])
      /\ \A i \in 1..cursor[t] : records[t][i] # Bad
  <2>1. records[t] \in Seq(Records) /\ cursor[t] \in Nat
    BY DEF LocalInv
  <2>2. QED
    BY <2>1 DEF LoadedSoFar
<1>2. \A i \in 1..cursor[t] : records[t][i] \in Capabilities
  BY <1>1 DEF Records
<1>3. SubSeq(records[t], 1, cursor[t]) \in Seq(Capabilities)
  BY <1>1, <1>2, SubSeqProperties
<1>4. QED
  BY <1>1, <1>3 DEF Dicts

LEMMA RecordLoaded ==
  ASSUME LocalInv, NEW t \in Threads, LoadedSoFar(t), LoadRecord(t)
  PROVE  LoadedSoFar(t)'
<1> DEFINE c == cursor[t]
           r == records[t]
<1>1. c \in 0..Len(r) /\ r \in Seq(Records) /\ Len(r) \in Nat /\ SubSeq(r, 1, c) \in Dicts
  BY PassedTyped
<1>2. c + 1 \in 1..Len(r) /\ r[c + 1] \in Capabilities /\ r[c + 1] # Bad
  BY RecordsLoaded DEF LoadRecord
<1>3. cursor'[t] = c + 1 /\ records'[t] = r /\ memory' = Put(memory, r[c + 1])
  BY DEF LoadRecord, LocalInv, StorePut
<1>4. memory = PutAll(<<>>, SubSeq(r, 1, c)) /\ \A i \in 1..c : r[i] # Bad
  BY DEF LoadedSoFar
<1> HIDE DEF c, r
<1>5. SubSeq(r, 1, c + 1) = Append(SubSeq(r, 1, c), r[c + 1])
  <2> DEFINE s == SubSeq(r, 1, c)
             l == SubSeq(r, 1, c + 1)
  <2>1. \A i \in 1..Len(r) : r[i] \in Records
    BY <1>1
  <2>2. s \in Seq(Records) /\ Len(s) = c /\ \A i \in 1..c : s[i] = r[i]
    <3>1. \A i \in 1..c : r[i] \in Records
      BY <1>1, <2>1
    <3>2. QED
      BY <1>1, <3>1, SubSeqProperties
  <2>3. l \in Seq(Records) /\ Len(l) = c + 1 /\ \A i \in 1..(c + 1) : l[i] = r[i]
    <3>1. \A i \in 1..(c + 1) : r[i] \in Records
      BY <1>1, <1>2, <2>1
    <3>2. QED
      BY <1>1, <1>2, <3>1, SubSeqProperties
  <2> HIDE DEF s, l
  <2>4. r[c + 1] \in Records
    BY <1>2, <2>1
  <2>5. /\ Append(s, r[c + 1]) \in Seq(Records) /\ Len(Append(s, r[c + 1])) = c + 1
        /\ Append(s, r[c + 1])[c + 1] = r[c + 1]
        /\ \A i \in 1..c : Append(s, r[c + 1])[i] = s[i]
    BY <2>2, <2>4, AppendProperties
  <2>6. \A i \in 1..(c + 1) : l[i] = Append(s, r[c + 1])[i]
    <3> SUFFICES ASSUME NEW i \in 1..(c + 1) PROVE l[i] = Append(s, r[c + 1])[i]
      OBVIOUS
    <3>1. i = c + 1 \/ i \in 1..c
      BY <1>1
    <3>2. QED
      BY <2>2, <2>3, <2>5, <3>1
  <2>7. l = Append(s, r[c + 1])
    BY <2>3, <2>5, <2>6, SeqEqual
  <2>8. QED
    BY <2>7 DEF s, l
<1>6. memory' = PutAll(<<>>, SubSeq(r, 1, c + 1))
  <2>1. PutAll(<<>>, Append(SubSeq(r, 1, c), r[c + 1])) = Put(PutAll(<<>>, SubSeq(r, 1, c)), r[c + 1])
    BY <1>1, <1>2, PutAllStep, EmptyDict
  <2>2. QED
    BY <1>3, <1>4, <1>5, <2>1
<1>7. c + 1 <= Len(r) /\ \A i \in 1..(c + 1) : r[i] # Bad
  <2>1. \A i \in 1..(c + 1) : i \in 1..c \/ i = c + 1
    BY <1>1
  <2>2. QED
    BY <1>1, <1>2, <1>4, <2>1
<1>8. QED
  BY <1>3, <1>6, <1>7 DEF LoadedSoFar

\* When the loop ends the memory is what a load of the records leaves.
LEMMA AllLoaded ==
  ASSUME LocalInv, NEW t \in Threads, LoadedSoFar(t), EndLoad(t)
  PROVE  memory = Loaded(records[t])
<1>1. /\ cursor[t] \in 0..Len(records[t]) /\ records[t] \in Seq(Records)
      /\ Len(records[t]) \in Nat
  BY PassedTyped
<1>2. cursor[t] = Len(records[t]) \/ records[t][cursor[t] + 1] = Bad
  BY DEF EndLoad
<1>3. memory = PutAll(<<>>, SubSeq(records[t], 1, cursor[t]))
      /\ \A i \in 1..cursor[t] : records[t][i] # Bad
  BY DEF LoadedSoFar
<1>4. GoodPrefix(records[t]) = SubSeq(records[t], 1, cursor[t])
  BY <1>1, <1>2, <1>3, GoodPrefixEnds
<1>5. Readable(records[t])
  BY <1>1, StoreAssumption DEF Readable
<1>6. QED
  BY <1>3, <1>4, <1>5 DEF Loaded

LEMMA FileNext == StoreInv /\ FileInv /\ [Next]_vars => FileInv'
<1> SUFFICES ASSUME StoreInv, FileInv, [Next]_vars PROVE FileInv'
  OBVIOUS
<1>1. DictInv /\ LocalInv /\ RestInv /\ overlapped \in BOOLEAN /\ up \in BOOLEAN
  BY DEF StoreInv, RestInv
<1>2. ASSUME up', overlapped' PROVE FileInv'
  BY <1>2 DEF FileInv
<1>3. ASSUME NEW t \in Threads,
             \/ \E cap \in Capabilities : PutCapability(t, cap)
             \/ EndDelete(t) \/ Clear(t) \/ Save(t)
      PROVE  FileInv'
  <2>1. /\ pc' = [pc EXCEPT ![t] = "flushing"] /\ up /\ UNCHANGED <<up, file, overlapped>>
    BY <1>3 DEF PutCapability, EndDelete, Clear, Save, GoTo, Call
  <2>2. QED
    BY <1>1, <2>1, Owes
<1>4. ASSUME NEW t \in Threads, NEW id \in Ids, BeginDelete(t, id) PROVE FileInv'
  <2>1. /\ pc[t] = "idle" /\ up
        /\ UNCHANGED <<memory, places, file, up, flushed, overlapped, cursor, size, records>>
    BY <1>4 DEF BeginDelete, Call, table
  <2>2. \E step \in {"idle", "deleting"} : pc' = [pc EXCEPT ![t] = step]
    <3>1. pc = [pc EXCEPT ![t] = "idle"]
      BY <1>1, <2>1 DEF LocalInv
    <3>2. QED
      BY <1>4, <3>1 DEF BeginDelete, GoTo
  <2>3. QED
    BY <1>1, <2>1, <2>2, Aside
<1>5. ASSUME NEW t \in Threads, RaiseKeyError(t) PROVE FileInv'
  <2>1. /\ pc[t] = "deleting" /\ pc' = [pc EXCEPT ![t] = "idle"] /\ up
        /\ UNCHANGED <<memory, places, file, up, flushed, overlapped>>
    BY <1>5 DEF RaiseKeyError, Return, GoTo, table
  <2>2. \A u \in Threads : u # t =>
          cursor'[u] = cursor[u] /\ size'[u] = size[u] /\ records'[u] = records[u]
    BY <1>1, <1>5 DEF RaiseKeyError, Return, LocalInv
  <2>3. QED
    BY <1>1, <2>1, <2>2, Aside
<1>6. ASSUME NEW t \in Threads, BeginDump(t) PROVE FileInv'
  <2>1. /\ up' /\ up /\ pc' = [pc EXCEPT ![t] = "dumping"] /\ memory' = memory
        /\ overlapped' = (overlapped \/ Shared(t))
    BY <1>6 DEF BeginDump, GoTo
  <2>2. size'[t] = Len(memory) /\ records'[t] = <<>> /\ cursor'[t] = 0 /\ pc'[t] = "dumping"
    BY <1>1, <1>6, <2>1 DEF BeginDump, LocalInv
  <2>3. DumpedSoFar(t)'
    <3>1. Len(memory) \in Nat
      BY <1>1 DEF DictInv, Dicts
    <3>2. QED
      BY <2>1, <2>2, <3>1, EmptyDict DEF DumpedSoFar
  <2>4. InStep(t)'
    BY <2>2, <2>3 DEF InStep
  <2>5. ASSUME ~overlapped' PROVE FileInv'
    <3>1. Sole(t)
      BY <2>1, <2>5, Found
    <3>2. QED
      BY <1>1, <2>1, <2>4, <3>1, Alone, StepNames
  <2>6. QED
    BY <1>2, <2>1, <2>5
<1>7. ASSUME NEW t \in Threads, DumpValue(t) PROVE FileInv'
  <2>1. /\ up' /\ up /\ pc[t] = "dumping" /\ UNCHANGED <<pc, overlapped>>
    BY <1>7 DEF DumpValue
  <2>2. pc' = [pc EXCEPT ![t] = "dumping"]
    BY <1>1, <2>1 DEF LocalInv
  <2>3. ASSUME ~overlapped PROVE FileInv'
    <3>1. Sole(t) /\ (Owed \/ DumpedSoFar(t))
      BY <2>1, <2>3, Found, StepNames DEF AtFile, InStep
    <3>2. Owed' \/ InStep(t)'
      <4>1. Owed => Owed'
        BY <1>1, <2>1, <2>2, OwedStays, StepNames
      <4>2. ASSUME DumpedSoFar(t) PROVE InStep(t)'
        <5>1. DumpedSoFar(t)'
          BY <1>1, <1>7, <4>2, ValueDumped
        <5>2. pc'[t] = "dumping"
          BY <2>1
        <5>3. QED
          BY <5>1, <5>2 DEF InStep
      <4>3. QED
        BY <3>1, <4>1, <4>2
    <3>3. QED
      BY <1>1, <2>1, <2>2, <3>1, <3>2, Alone, StepNames
  <2>4. QED
    BY <1>2, <2>1, <2>3
<1>8. ASSUME NEW t \in Threads, EndDump(t) PROVE FileInv'
  <2>1. /\ up' /\ up /\ pc[t] = "dumping" /\ pc' = [pc EXCEPT ![t] = "dumped"]
        /\ Unread(t) = {} /\ UNCHANGED <<memory, records, overlapped>>
    BY <1>8 DEF EndDump, GoTo, locals
  <2>2. pc'[t] = "dumped"
    BY <1>1, <2>1 DEF LocalInv
  <2>3. ASSUME ~overlapped PROVE FileInv'
    <3>1. Sole(t) /\ (Owed \/ DumpedSoFar(t))
      BY <2>1, <2>3, Found, StepNames DEF AtFile, InStep
    <3>2. Owed' \/ InStep(t)'
      <4>1. Owed => Owed'
        BY <1>1, <2>1, OwedStays, StepNames
      <4>2. ASSUME DumpedSoFar(t) PROVE InStep(t)'
        <5>1. records[t] = memory
          BY <1>1, <2>1, <4>2, AllDumped
        <5>2. QED
          BY <2>1, <2>2, <5>1 DEF InStep
      <4>3. QED
        BY <3>1, <4>1, <4>2
    <3>3. QED
      BY <1>1, <2>1, <3>1, <3>2, Alone, StepNames
  <2>4. QED
    BY <1>2, <2>1, <2>3
<1>9. ASSUME NEW t \in Threads, DumpRaises(t) PROVE FileInv'
  <2>1. /\ up' /\ up /\ pc[t] = "dumping" /\ pc' = [pc EXCEPT ![t] = "idle"]
        /\ UNCHANGED overlapped
    BY <1>9 DEF DumpRaises, Return, GoTo
  <2>2. ASSUME ~overlapped PROVE FileInv'
    <3>1. Sole(t) /\ (Owed \/ DumpedSoFar(t))
      BY <2>1, <2>2, Found, StepNames DEF AtFile, InStep
    <3>2. Owed
      BY <1>1, <1>9, <3>1, NoRaise
    <3>3. Owed'
      BY <1>1, <2>1, <3>2, OwedStays, StepNames
    <3>4. QED
      BY <1>1, <2>1, <3>1, <3>3, Alone, StepNames
  <2>3. QED
    BY <1>2, <2>1, <2>2
<1>10. ASSUME NEW t \in Threads, Truncate(t) PROVE FileInv'
  <2>1. /\ up' /\ up /\ pc[t] = "dumped" /\ pc' = [pc EXCEPT ![t] = "writing"]
        /\ file' = Empty /\ UNCHANGED <<memory, records, overlapped>>
    BY <1>10 DEF Truncate, GoTo, locals
  <2>2. pc'[t] = "writing"
    BY <1>1, <2>1 DEF LocalInv
  <2>3. ASSUME ~overlapped PROVE FileInv'
    <3>1. Sole(t) /\ (Owed \/ records[t] = memory)
      BY <2>1, <2>3, Found, StepNames DEF AtFile, InStep
    <3>2. Owed' \/ InStep(t)'
      <4>1. Owed => Owed'
        BY <1>1, <2>1, OwedStays, StepNames
      <4>2. records[t] = memory => InStep(t)'
        BY <2>1, <2>2 DEF InStep
      <4>3. QED
        BY <3>1, <4>1, <4>2
    <3>3. QED
      BY <1>1, <2>1, <3>1, <3>2, Alone, StepNames
  <2>4. QED
    BY <1>2, <2>1, <2>3
<1>11. ASSUME NEW t \in Threads, Write(t) PROVE FileInv'
  <2>1. /\ up' /\ up /\ pc[t] = "writing" /\ pc' = [pc EXCEPT ![t] = "idle"]
        /\ flushed' = records[t] /\ UNCHANGED <<memory, overlapped>>
    BY <1>11 DEF Write, Return, GoTo
  <2>2. ASSUME ~overlapped PROVE FileInv'
    <3>1. Sole(t) /\ file = Empty /\ (Owed \/ records[t] = memory)
      BY <2>1, <2>2, Found, StepNames DEF AtFile, InStep
    <3>2. file' = records[t]
      BY <1>11, <3>1 DEF Write
    <3>3. Owed' \/ Agrees'
      <4>1. Owed => Owed'
        BY <1>1, <2>1, OwedStays, StepNames
      <4>2. records[t] = memory => Agrees'
        BY <2>1, <3>2 DEF Agrees
      <4>3. QED
        BY <3>1, <4>1, <4>2
    <3>4. QED
      BY <1>1, <2>1, <3>1, <3>3, Alone, StepNames
  <2>3. QED
    BY <1>2, <2>1, <2>2
<1>12. ASSUME NEW t \in Threads, SaveFails(t) PROVE FileInv'
  <2>1. /\ up' /\ up /\ pc' = [pc EXCEPT ![t] = "idle"] /\ flushed' = Unknown
        /\ overlapped' = (overlapped \/ Shared(t))
    BY <1>12 DEF SaveFails, Return, GoTo
  <2>2. ASSUME ~overlapped' PROVE FileInv'
    <3>1. Sole(t) /\ Agrees'
      BY <2>1, <2>2, Found DEF Agrees
    <3>2. QED
      BY <1>1, <2>1, <3>1, Alone, StepNames
  <2>3. QED
    BY <1>2, <2>1, <2>2
<1>13. ASSUME NEW t \in Threads, BeginReload(t) PROVE FileInv'
  <2>1. /\ up' /\ up /\ pc' = [pc EXCEPT ![t] = "opening"] /\ memory' = <<>>
        /\ overlapped' = (overlapped \/ Shared(t))
    BY <1>13 DEF BeginReload, GoTo, Call, StoreClear
  <2>2. InStep(t)'
    <3>1. pc'[t] = "opening"
      BY <1>1, <2>1 DEF LocalInv
    <3>2. QED
      BY <2>1, <3>1 DEF InStep
  <2>3. ASSUME ~overlapped' PROVE FileInv'
    <3>1. Sole(t)
      BY <2>1, <2>3, Found
    <3>2. QED
      BY <1>1, <2>1, <2>2, <3>1, Alone, StepNames
  <2>4. QED
    BY <1>2, <2>1, <2>3
<1>14. ASSUME NEW t \in Threads, ReadFile(t) PROVE FileInv'
  <2>1. up' /\ up /\ pc[t] = "opening" /\ UNCHANGED <<memory, file, overlapped>>
    BY <1>14 DEF ReadFile
  <2>2. ASSUME ~overlapped PROVE FileInv'
    <3>1. Sole(t) /\ (Owed \/ memory = <<>>)
      BY <2>1, <2>2, Found, StepNames DEF AtFile, InStep
    <3>2. CASE Readable(file)
      <4>1. /\ pc' = [pc EXCEPT ![t] = "loading"]
            /\ pc'[t] = "loading" /\ records'[t] = file /\ cursor'[t] = 0
        BY <1>1, <1>14, <3>2 DEF ReadFile, GoTo, LocalInv
      <4>2. memory = <<>> => LoadedSoFar(t)'
        <5>1. file \in Seq(Records) /\ Len(file) \in Nat
          BY <1>1, <3>2 DEF RestInv, Files, Readable
        <5>2. SubSeq(file, 1, 0) = <<>>
          BY <5>1, SubSeqEmpty
        <5>3. PutAll(<<>>, <<>>) = <<>>
          BY NothingPut, EmptyDict
        <5>4. ASSUME memory = <<>>
              PROVE  memory' = PutAll(<<>>, SubSeq(records'[t], 1, cursor'[t]))
          BY <2>1, <4>1, <5>2, <5>3, <5>4
        <5>5. cursor'[t] <= Len(records'[t]) /\ \A i \in 1..cursor'[t] : records'[t][i] # Bad
          BY <4>1, <5>1
        <5>6. QED
          BY <5>4, <5>5 DEF LoadedSoFar
      <4>3. Owed' \/ InStep(t)'
        <5>1. Owed => Owed'
          BY <1>1, <2>1, <4>1, OwedStays, StepNames
        <5>2. QED
          BY <3>1, <4>1, <4>2, <5>1 DEF InStep
      <4>4. QED
        BY <1>1, <2>1, <3>1, <4>1, <4>3, Alone, StepNames
    <3>3. CASE ~Readable(file)
      <4>1. pc' = [pc EXCEPT ![t] = "idle"] /\ flushed' = AfterLoad(file)
        BY <1>14, <3>3 DEF ReadFile, Return, GoTo
      <4>2. Owed' \/ Agrees'
        <5>1. Owed => Owed'
          BY <1>1, <2>1, <4>1, OwedStays, StepNames
        <5>2. ASSUME memory = <<>> PROVE Agrees'
          <6>1. file = Absent \/ AfterLoad(file) = Unknown
            BY <3>3 DEF AfterLoad
          <6>2. file = Absent => AfterLoad(file) = <<>>
            BY DEF AfterLoad
          <6>3. QED
            BY <2>1, <4>1, <5>2, <6>1, <6>2 DEF Agrees
        <5>3. QED
          BY <3>1, <5>1, <5>2
      <4>3. QED
        BY <1>1, <2>1, <3>1, <4>1, <4>2, Alone, StepNames
    <3>4. QED
      BY <3>2, <3>3
  <2>3. QED
    BY <1>2, <2>1, <2>2
<1>15. ASSUME NEW t \in Threads, ReadFails(t) PROVE FileInv'
  <2>1. /\ up' /\ up /\ pc[t] = "opening" /\ pc' = [pc EXCEPT ![t] = "idle"]
        /\ flushed' = Unknown /\ UNCHANGED overlapped
    BY <1>15 DEF ReadFails, Return, GoTo
  <2>2. ASSUME ~overlapped PROVE FileInv'
    <3>1. Sole(t) /\ Agrees'
      BY <2>1, <2>2, Found, StepNames DEF AtFile, Agrees
    <3>2. QED
      BY <1>1, <2>1, <3>1, Alone, StepNames
  <2>3. QED
    BY <1>2, <2>1, <2>2
<1>16. ASSUME NEW t \in Threads, LoadRecord(t) PROVE FileInv'
  <2>1. /\ up' /\ up /\ pc[t] = "loading" /\ UNCHANGED <<pc, overlapped>>
    BY <1>16 DEF LoadRecord
  <2>2. pc' = [pc EXCEPT ![t] = "loading"]
    BY <1>1, <2>1 DEF LocalInv
  <2>3. ASSUME ~overlapped PROVE FileInv'
    <3>1. Sole(t) /\ (Owed \/ LoadedSoFar(t))
      BY <2>1, <2>3, Found, StepNames DEF AtFile, InStep
    <3>2. Owed' \/ InStep(t)'
      <4>1. Owed => Owed'
        BY <1>1, <2>1, <2>2, OwedStays, StepNames
      <4>2. ASSUME LoadedSoFar(t) PROVE InStep(t)'
        <5>1. LoadedSoFar(t)'
          BY <1>1, <1>16, <4>2, RecordLoaded
        <5>2. pc'[t] = "loading"
          BY <2>1
        <5>3. QED
          BY <5>1, <5>2 DEF InStep
      <4>3. QED
        BY <3>1, <4>1, <4>2
    <3>3. QED
      BY <1>1, <2>1, <2>2, <3>1, <3>2, Alone, StepNames
  <2>4. QED
    BY <1>2, <2>1, <2>3
<1>17. ASSUME NEW t \in Threads, EndLoad(t) PROVE FileInv'
  <2>1. /\ up' /\ up /\ pc[t] = "loading" /\ pc' = [pc EXCEPT ![t] = "idle"]
        /\ flushed' = (IF file = records[t] THEN AfterLoad(file) ELSE Unknown)
        /\ UNCHANGED <<memory, file, overlapped>>
    BY <1>17 DEF EndLoad, Return, GoTo
  <2>2. ASSUME ~overlapped PROVE FileInv'
    <3>1. Sole(t) /\ (Owed \/ LoadedSoFar(t))
      BY <2>1, <2>2, Found, StepNames DEF AtFile, InStep
    <3>2. Owed' \/ Agrees'
      <4>1. Owed => Owed'
        BY <1>1, <2>1, OwedStays, StepNames
      <4>2. ASSUME LoadedSoFar(t) PROVE Agrees'
        <5>1. memory = Loaded(records[t])
          BY <1>1, <1>17, <4>2, AllLoaded
        <5>2. file \in Files
          BY <1>1 DEF RestInv
        <5>3. AfterLoad(file) # Unknown =>
                /\ Loaded(file) = AfterLoad(file)
                /\ file \in {AfterLoad(file)} \cup (IF AfterLoad(file) = <<>> THEN {Absent} ELSE {})
          BY <5>2, LoadSettles
        <5>4. QED
          BY <2>1, <5>1, <5>3 DEF Agrees
      <4>3. QED
        BY <3>1, <4>1, <4>2
    <3>3. QED
      BY <1>1, <2>1, <3>1, <3>2, Alone, StepNames
  <2>3. QED
    BY <1>2, <2>1, <2>2
<1>18. CASE Crash
  <2>1. ~up' /\ \A u \in Threads : pc'[u] = "idle"
    BY <1>18 DEF Crash
  <2>2. QED
    BY <2>1 DEF FileInv
<1>19. CASE Restart
  <2>1. \A u \in Threads : pc'[u] = "idle"
    BY <1>19 DEF Restart, FileInv
  <2>2. \A u \in Threads : InStep(u)' /\ ~AtFile(u)'
    BY <2>1, StepNames DEF InStep, AtFile
  <2>3. Agrees'
    <3>1. file \in Files /\ file' = file
      BY <1>1, <1>19 DEF RestInv, Restart
    <3>2. AfterLoad(file) # Unknown =>
                /\ Loaded(file) = AfterLoad(file)
                /\ file \in {AfterLoad(file)} \cup (IF AfterLoad(file) = <<>> THEN {Absent} ELSE {})
      BY <3>1, LoadSettles
    <3>3. QED
      BY <1>19, <3>1, <3>2 DEF Restart, Agrees
  <2>4. up'
    BY <1>19 DEF Restart
  <2>5. QED
    BY <2>1, <2>2, <2>3, <2>4 DEF FileInv
<1>20. ASSUME NEW f \in Edits, Edit(f) PROVE FileInv'
  <2>1. /\ \A t \in Threads : pc[t] # "writing"
        /\ flushed' = Unknown
        /\ UNCHANGED <<memory, places, up, pc, cursor, size, records, overlapped>>
    BY <1>20 DEF Edit, locals, table
  <2>2. Agrees'
    BY <2>1 DEF Agrees
  <2>3. \A t \in Threads : (InStep(t) => InStep(t)') /\ (AtFile(t)' <=> AtFile(t))
    BY <2>1 DEF InStep, DumpedSoFar, LoadedSoFar, AtFile
  <2>4. \A t \in Threads : Sole(t) => Sole(t)'
    BY <2>3 DEF Sole
  <2>5. Owed' <=> Owed
    BY <2>1 DEF Owed
  <2>6. QED
    BY <2>1, <2>2, <2>3, <2>4, <2>5 DEF FileInv
<1>21. CASE UNCHANGED vars
  <2>1. UNCHANGED <<memory, places, file, up, pc, cursor, size, records, flushed, overlapped>>
    BY <1>21 DEF vars, locals, table
  <2>2. \A t \in Threads : (InStep(t) => InStep(t)') /\ (AtFile(t)' <=> AtFile(t))
    BY <2>1 DEF InStep, DumpedSoFar, LoadedSoFar, AtFile
  <2>3. \A t \in Threads : Sole(t) => Sole(t)'
    BY <2>2 DEF Sole
  <2>4. (Owed' <=> Owed) /\ (Agrees => Agrees')
    BY <2>1 DEF Owed, Agrees
  <2>5. QED
    BY <2>1, <2>2, <2>3, <2>4 DEF FileInv
<1>22. QED
  BY <1>3, <1>4, <1>5, <1>6, <1>7, <1>8, <1>9, <1>10, <1>11, <1>12, <1>13, <1>14, <1>15, <1>16,
     <1>17, <1>18, <1>19, <1>20, <1>21 DEF Next, Operation

LEMMA FileInvHolds == Spec => []FileInv
<1>1. StoreInv /\ FileInv /\ [Next]_vars => FileInv'
  BY FileNext
<1>2. QED
  BY <1>1, FileInit, StoreInvHolds, PTL DEF Spec

\* Any number of threads: as long as no two of them are in _save or reload at once, the
\* file holds between operations what the memory holds, however the changes, the
\* dumps and the loads of the threads interleave, unless a file operation was refused,
\* someone edited the file or a load left records out.
THEOREM StoreFileFollows == Spec => []FileFollowsMemory
<1>1. QED
  BY FileFollowsInv, FileInvHolds, PTL

--------------------------------------------------------------------------------
(* One thread: nobody else can be at the file, and the store implements the *)
(* persistent registry.  Truncating is its Interrupt, writing its Flush,    *)
(* reading the file its Refresh; dumping and the loop of _load it does not  *)
(* see, nor what the code only logs.                                        *)

OneThread == \A t, u \in Threads : t = u

SoleInv == StoreInv /\ FileInv /\ ~overlapped

LEMMA SoleInvHolds ==
  ASSUME OneThread
  PROVE  Spec => []SoleInv
<1>1. Init => ~overlapped
  BY DEF Init
<1>2. \A t \in Threads : ~Shared(t)
  BY DEF OneThread, Shared
<1>3. ~overlapped /\ [Next]_vars => ~overlapped'
  <2> SUFFICES ASSUME ~overlapped, [Next]_vars PROVE ~overlapped'
    OBVIOUS
  <2>1. ASSUME NEW t \in Threads, Operation(t) PROVE ~overlapped'
    BY <1>2, <2>1 DEF Operation, PutCapability, BeginDelete, EndDelete, RaiseKeyError, Clear, Save,
       BeginDump, DumpValue, EndDump, DumpRaises, Truncate, Write, SaveFails,
       BeginReload, ReadFile, ReadFails, LoadRecord, EndLoad
  <2>2. ASSUME Crash \/ Restart \/ (\E f \in Edits : Edit(f)) \/ UNCHANGED vars PROVE ~overlapped'
    BY <2>2 DEF Crash, Restart, Edit, vars
  <2>3. QED
    BY <2>1, <2>2 DEF Next
<1>4. QED
  BY <1>1, <1>3, StoreInvHolds, FileInvHolds, PTL DEF Spec, SoleInv

\* A store one thread uses keeps the file consistent, as storage.py says.
THEOREM SoleFileConsistent ==
  ASSUME OneThread
  PROVE  Spec => []FileConsistent
<1>1. SoleInv => FileConsistent
  BY FileFollowsInv DEF SoleInv, FileFollowsMemory
<1>2. QED
  BY <1>1, SoleInvHolds, PTL

\* The thread is the one CHOOSE finds.
LEMMA Shown ==
  ASSUME OneThread, NEW t \in Threads
  PROVE  /\ pc[t] = "loading" => Contents = IF up THEN Loaded(records[t]) ELSE <<>>
         /\ pc[t] # "loading" => Contents = IF up THEN memory ELSE <<>>
<1>1. \A u \in Threads : u = t
  BY DEF OneThread
<1>2. CASE pc[t] = "loading"
  <2>1. (CHOOSE u \in Threads : pc[u] = "loading") = t
    BY <1>1, <1>2
  <2>2. QED
    BY <1>2, <2>1 DEF Contents
<1>3. CASE pc[t] # "loading"
  BY <1>1, <1>3 DEF Contents
<1>4. QED
  BY <1>2, <1>3

LEMMA ShownNext ==
  ASSUME OneThread, NEW t \in Threads
  PROVE  /\ pc'[t] = "loading" => Contents' = IF up' THEN Loaded(records'[t]) ELSE <<>>
         /\ pc'[t] # "loading" => Contents' = IF up' THEN memory' ELSE <<>>
<1>1. \A u \in Threads : u = t
  BY DEF OneThread
<1>2. CASE pc'[t] = "loading"
  <2>1. (CHOOSE u \in Threads : pc'[u] = "loading") = t
    BY <1>1, <1>2
  <2>2. Loaded(records[CHOOSE u \in Threads : pc[u] = "loading"])'
          = Loaded(records'[CHOOSE u \in Threads : pc'[u] = "loading"])
    BY DEF Loaded, Readable
  <2>3. QED
    BY <1>2, <2>1, <2>2 DEF Contents
<1>3. CASE pc'[t] # "loading"
  BY <1>1, <1>3 DEF Contents
<1>4. QED
  BY <1>2, <1>3

\* What the thread knows of memory and file at each step.
LEMMA SoleFound ==
  ASSUME OneThread, SoleInv, up, NEW t \in Threads, AtFile(t)
  PROVE  InStep(t) /\ (pc[t] = "writing" => file = Empty)
<1>1. pc[t] # "flushing"
  BY StepNames DEF AtFile
<1>2. ~Owed
  BY <1>1 DEF OneThread, Owed
<1>3. QED
  BY <1>2, Found DEF SoleInv

\* A write that ends early leaves what does not load either.
LEMMA TornLoadsNothing ==
  ASSUME SoleInv, up, MaybeTorn
  PROVE  StoredContents' = StoredContents
<1>1. CASE file' = file
  BY <1>1 DEF StoredContents
<1>2. CASE file' = Torn /\ \E t \in Threads : pc[t] = "writing"
  <2>1. file = Empty
    BY <1>2 DEF SoleInv, FileInv
  <2>2. QED
    BY <1>2, <2>1 DEF StoredContents, Loaded, Readable
<1>3. QED
  BY <1>1, <1>2 DEF MaybeTorn

LEMMA Viewed ==
  /\ Store!Init <=> up = TRUE /\ Contents = <<>> /\ StoredContents = <<>>
  /\ [Store!Next]_(Store!vars) <=>
       \/ Store!Next
       \/ (up' = up /\ Contents' = Contents /\ StoredContents' = StoredContents)
  BY DEF Store!Init, Store!vars

\* Both modules have their dicts from OrderedDict.
LEMMA SameDicts ==
  /\ \A dict, id : Store!HoldsId(dict, id) <=> HoldsId(dict, id)
  /\ \A dict, value : Store!Put(dict, value) = Put(dict, value)
  /\ \A dict, id : Store!Delete(dict, id) = Delete(dict, id)
<1>1. \A dict, id : Store!HoldsId(dict, id) <=> HoldsId(dict, id)
  BY DEF Store!HoldsId, HoldsId
<1>2. \A dict, value : Store!Put(dict, value) = Put(dict, value)
  BY <1>1 DEF Store!Put, Put
<1>3. \A dict, id : Store!Position(dict, id) = Position(dict, id)
  BY DEF Store!Position, Position
<1>4. \A dict, id : Store!Delete(dict, id) = Delete(dict, id)
  BY <1>3 DEF Store!Delete, Delete, Store!RemoveAt, RemoveAt
<1>5. QED
  BY <1>1, <1>2, <1>4

LEMMA StoreStep ==
  ASSUME OneThread
  PROVE  SoleInv /\ [Next]_vars => [Store!Next]_(Store!vars)
<1> SUFFICES ASSUME SoleInv, [Next]_vars
             PROVE  [Store!Next]_(Store!vars)
  OBVIOUS
<1>1. /\ DictInv /\ LocalInv /\ RestInv /\ FileInv /\ ~overlapped
      /\ memory \in Dicts /\ Distinct(memory) /\ file \in Files
  BY DEF SoleInv, StoreInv, DictInv, RestInv
<1>2. ASSUME up, UNCHANGED <<up, memory, file>>, NEW t \in Threads,
             pc[t] # "loading", pc'[t] # "loading"
      PROVE  [Store!Next]_(Store!vars)
  <2>1. Contents = memory /\ Contents' = memory'
    BY <1>2, Shown, ShownNext
  <2>2. QED
    BY <1>2, <2>1, Viewed DEF StoredContents
<1>3. ASSUME NEW t \in Threads, NEW step \in Steps \ {"loading"},
             up, up' = up, file' = file, pc[t] # "loading", GoTo(t, step),
             \/ \E cap \in Capabilities : memory' = Put(memory, cap)
             \/ \E id \in Ids : HoldsId(memory, id) /\ memory' = Delete(memory, id)
             \/ memory' = <<>>
      PROVE  [Store!Next]_(Store!vars)
  <2>1. pc'[t] # "loading"
    BY <1>1, <1>3 DEF GoTo, LocalInv
  <2>2. Contents = memory /\ Contents' = memory' /\ StoredContents' = StoredContents
    BY <1>3, <2>1, Shown, ShownNext DEF StoredContents
  <2>3. Store!Change
    BY <1>3, <2>2, SameDicts DEF Store!Change, Store!Ids, Ids
  <2>4. QED
    BY <2>3 DEF Store!Next
<1>4. ASSUME NEW t \in Threads, NEW cap \in Capabilities, PutCapability(t, cap)
      PROVE  [Store!Next]_(Store!vars)
  BY <1>3, <1>4, StepNames DEF PutCapability, StorePut, Call
<1>5. ASSUME NEW t \in Threads, EndDelete(t)
      PROVE  [Store!Next]_(Store!vars)
  <2>1. key[t] \in Ids
    BY <1>1, <1>5 DEF EndDelete, HoldsId, Ids, Dicts
  <2>2. QED
    BY <1>3, <1>5, <2>1, StepNames DEF EndDelete, StoreDelete
<1>6. ASSUME NEW t \in Threads, Clear(t) \/ BeginReload(t)
      PROVE  [Store!Next]_(Store!vars)
  BY <1>3, <1>6, StepNames DEF Clear, BeginReload, StoreClear, Call
<1>7. ASSUME NEW t \in Threads,
             \/ \E id \in Ids : BeginDelete(t, id)
             \/ RaiseKeyError(t) \/ Save(t)
             \/ BeginDump(t) \/ DumpValue(t) \/ EndDump(t) \/ DumpRaises(t) \/ ReadFails(t)
      PROVE  [Store!Next]_(Store!vars)
  <2>1. up /\ UNCHANGED <<up, memory, file>> /\ pc[t] # "loading"
    BY <1>7 DEF BeginDelete, RaiseKeyError, Save, BeginDump, DumpValue, EndDump, DumpRaises,
                ReadFails, Call
  <2>2. pc'[t] # "loading"
    BY <1>1, <1>7 DEF BeginDelete, RaiseKeyError, Save, BeginDump, DumpValue, EndDump, DumpRaises,
                ReadFails, Call, Return, GoTo, LocalInv
  <2>3. QED
    BY <1>2, <2>1, <2>2
<1>8. ASSUME NEW t \in Threads, SaveFails(t)
      PROVE  [Store!Next]_(Store!vars)
  <2>1. up /\ UNCHANGED <<up, memory>> /\ pc[t] # "loading" /\ MaybeTorn
    BY <1>8 DEF SaveFails, MaybeTorn
  <2>2. pc'[t] # "loading"
    BY <1>1, <1>8 DEF SaveFails, Return, GoTo, LocalInv
  <2>3. Contents = memory /\ Contents' = memory'
    BY <2>1, <2>2, Shown, ShownNext
  <2>4. QED
    BY <2>1, <2>3, TornLoadsNothing, Viewed
<1>9. ASSUME NEW t \in Threads, Truncate(t)
      PROVE  [Store!Next]_(Store!vars)
  <2>1. up /\ UNCHANGED <<up, memory>> /\ pc[t] # "loading" /\ pc'[t] # "loading"
    BY <1>1, <1>9 DEF Truncate, GoTo, LocalInv
  <2>2. Contents = memory /\ Contents' = memory'
    BY <2>1, Shown, ShownNext
  <2>3. StoredContents' = <<>>
    BY <1>9 DEF Truncate, StoredContents, Loaded, Readable
  <2>4. Store!Interrupt
    BY <2>1, <2>2, <2>3 DEF Store!Interrupt
  <2>5. QED
    BY <2>4 DEF Store!Next
<1>10. ASSUME NEW t \in Threads, Write(t)
       PROVE  [Store!Next]_(Store!vars)
  <2>1. up /\ UNCHANGED <<up, memory>> /\ pc[t] = "writing" /\ pc'[t] # "loading"
    BY <1>1, <1>10 DEF Write, Return, GoTo, LocalInv
  <2>2. Contents = memory /\ Contents' = memory'
    BY <2>1, Shown, ShownNext
  <2>3. records[t] = memory /\ file = Empty
    BY <2>1, SoleFound, StepNames DEF AtFile, InStep
  <2>4. file' = memory
    BY <1>10, <2>3 DEF Write
  <2>5. StoredContents' = memory
    BY <1>1, <2>4, LoadedWhole DEF StoredContents
  <2>6. Store!Flush
    BY <2>1, <2>2, <2>5 DEF Store!Flush
  <2>7. QED
    BY <2>6 DEF Store!Next
<1>11. ASSUME NEW t \in Threads, ReadFile(t)
       PROVE  [Store!Next]_(Store!vars)
  <2>1. up /\ UNCHANGED <<up, memory, file>> /\ pc[t] = "opening"
    BY <1>11 DEF ReadFile
  <2>2. CASE Readable(file)
    <3>1. pc'[t] = "loading" /\ records'[t] = file
      BY <1>1, <1>11, <2>2 DEF ReadFile, GoTo, LocalInv
    <3>2. Contents' = StoredContents
      BY <2>1, <3>1, ShownNext DEF StoredContents
    <3>3. Store!Refresh
      BY <2>1, <3>2 DEF Store!Refresh, StoredContents
    <3>4. QED
      BY <3>3 DEF Store!Next
  <2>3. CASE ~Readable(file)
    <3>1. pc'[t] # "loading"
      BY <1>1, <1>11, <2>3 DEF ReadFile, Return, GoTo, LocalInv
    <3>2. QED
      BY <1>2, <2>1, <3>1
  <2>4. QED
    BY <2>2, <2>3
<1>12. ASSUME NEW t \in Threads, LoadRecord(t)
       PROVE  [Store!Next]_(Store!vars)
  <2>1. up /\ UNCHANGED <<up, file, records>> /\ pc[t] = "loading" /\ pc'[t] = "loading"
    BY <1>12 DEF LoadRecord
  <2>2. Contents' = Contents
    BY <2>1, Shown, ShownNext
  <2>3. QED
    BY <2>1, <2>2, Viewed DEF StoredContents
<1>13. ASSUME NEW t \in Threads, EndLoad(t)
       PROVE  [Store!Next]_(Store!vars)
  <2>1. up /\ UNCHANGED <<up, memory, file>> /\ pc[t] = "loading" /\ pc'[t] # "loading"
    BY <1>1, <1>13 DEF EndLoad, Return, GoTo, LocalInv
  <2>2. LoadedSoFar(t)
    BY <2>1, SoleFound, StepNames DEF AtFile, InStep
  <2>3. memory = Loaded(records[t])
    BY <1>1, <1>13, <2>2, AllLoaded
  <2>4. Contents' = Contents
    BY <2>1, <2>3, Shown, ShownNext
  <2>5. QED
    BY <2>1, <2>4, Viewed DEF StoredContents
<1>14. CASE Crash
  <2>1. StoredContents' = StoredContents /\ up /\ up' = FALSE
    BY <1>14, TornLoadsNothing DEF Crash
  <2>2. Contents' = <<>>
    BY <2>1 DEF Contents
  <2>3. Store!Stop
    BY <2>1, <2>2 DEF Store!Stop
  <2>4. QED
    BY <2>3 DEF Store!Next
<1>15. CASE Restart
  <2>1. ~up /\ up' = TRUE /\ file' = file /\ \A t \in Threads : pc'[t] = "idle"
    BY <1>1, <1>15 DEF Restart, FileInv
  <2>2. Contents' = memory'
    BY <2>1 DEF Contents
  <2>3. memory' \in {StoredContents, <<>>} /\ StoredContents' = StoredContents
    BY <1>15, <2>1 DEF Restart, StoredContents
  <2>4. Store!Restart
    BY <2>1, <2>2, <2>3 DEF Store!Restart
  <2>5. QED
    BY <2>4 DEF Store!Next
<1>16. ASSUME NEW f \in Edits, Edit(f)
       PROVE  [Store!Next]_(Store!vars)
  <2>1. file' = f /\ UNCHANGED <<memory, up, pc, records>>
    BY <1>16 DEF Edit, locals
  <2>2. Contents' = Contents
    BY <2>1 DEF Contents, Loaded, Readable
  <2>3. Store!Replace
    BY <2>1, <2>2 DEF Store!Replace, StoredContents
  <2>4. QED
    BY <2>3 DEF Store!Next
<1>17. CASE UNCHANGED vars
  <2>1. UNCHANGED <<memory, file, up, pc, records>>
    BY <1>17 DEF vars, locals
  <2>2. Contents' = Contents /\ StoredContents' = StoredContents
    BY <2>1 DEF Contents, StoredContents, Loaded, Readable
  <2>3. QED
    BY <2>1, <2>2, Viewed
<1>18. QED
  BY <1>4, <1>5, <1>6, <1>7, <1>8, <1>9, <1>10, <1>11, <1>12, <1>13, <1>14, <1>15, <1>16, <1>17
     DEF Next, Operation

\* Whatever fails and wherever the process dies, a store used by one thread comes back
\* with the contents of its last completed flush, or with nothing: what is stored changes
\* only to what the memory holds, to nothing, or to what an operator puts there.
THEOREM SoleStoreIsPersistent ==
  ASSUME OneThread
  PROVE  Spec => PersistentRegistry
<1>1. Init => Store!Init
  <2> SUFFICES ASSUME Init PROVE Store!Init
    OBVIOUS
  <2>1. StoredContents = <<>>
    BY DEF Init, StoredContents, Loaded, Readable
  <2>2. Contents = <<>>
    BY DEF Init, Contents
  <2>3. QED
    BY <2>1, <2>2, Viewed DEF Init
<1>2. SoleInv /\ [Next]_vars => [Store!Next]_(Store!vars)
  BY StoreStep
<1>3. Spec => []SoleInv
  BY SoleInvHolds
<1>4. QED
  BY <1>1, <1>2, <1>3, PTL DEF Spec, PersistentRegistry, Store!Spec
================================================================================
