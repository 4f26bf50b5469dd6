--------------------------- MODULE IntervalLemmas ----------------------------
(* Facts about sets of numbers and about sequences that the proofs about   *)
(* jobs, arrays and maps share.                                            *)
EXTENDS Integers, WellFoundedInduction, FiniteSetTheorems, SequenceTheorems, TLAPS

(* A non-empty set of numbers up to N has a largest member. *)
LEMMA LargestMember ==
  ASSUME NEW N \in Nat, NEW S \in SUBSET (1..N), S # {}
  PROVE  \E m \in S : \A x \in S : x <= m
<1> DEFINE R == {ss \in Nat \X Nat : ss[1] < ss[2]}
           T == {N - x : x \in S}
<1>1. T \subseteq Nat /\ T # {}
  <2>1. PICK x \in S : TRUE
    OBVIOUS
  <2>2. N - x \in T
    BY <2>1
  <2>3. ASSUME NEW y \in S PROVE N - y \in Nat
    OBVIOUS
  <2> QED BY <2>2, <2>3
<1>2. IsWellFoundedOn(R, Nat)
  BY NatLessThanWellFounded DEF OpToRel
<1>3. \E t \in T : \A y \in T : ~ (<<y, t>> \in R)
  <2> HIDE DEF R, T
  <2> QED BY <1>1, <1>2, WFMin
<1>4. PICK t \in T : \A y \in T : ~ (y < t)
  BY <1>1, <1>3
<1>5. PICK m \in S : t = N - m
  BY <1>4
<1>6. ASSUME NEW x \in S PROVE x <= m
  BY <1>4, <1>5
<1> QED BY <1>6

(* A non-empty set of naturals has a smallest member. *)
LEMMA SmallestMember ==
  ASSUME NEW S \in SUBSET Nat, S # {}
  PROVE  \E m \in S : \A x \in S : m <= x
<1> DEFINE R == {ss \in Nat \X Nat : ss[1] < ss[2]}
<1>1. IsWellFoundedOn(R, Nat)
  BY NatLessThanWellFounded DEF OpToRel
<1>2. PICK m \in S : \A y \in S : ~ (<<y, m>> \in R)
  <2> HIDE DEF R
  <2> QED BY <1>1, WFMin
<1>3. ASSUME NEW x \in S PROVE m <= x
  <2>1. ~ (<<x, m>> \in R)
    BY <1>2
  <2> QED BY <2>1
<1> QED BY <1>3

(* A finite set of numbers has an n-th member. *)
LEMMA NthMember ==
  ASSUME NEW F \in SUBSET Nat, IsFiniteSet(F), NEW n \in 1..Cardinality(F)
  PROVE  \E m \in F : Cardinality({k \in F : k < m}) = n - 1
<1> DEFINE Below(m) == {k \in F : k < m}
           Has(i) == \E m \in F : Cardinality(Below(m)) = i - 1
           B == {i \in 1..Cardinality(F) : ~ Has(i)}
<1>1. Cardinality(F) \in Nat
  BY FS_CardinalityType
<1>2. \A m : IsFiniteSet(Below(m)) /\ Cardinality(Below(m)) \in Nat
  BY FS_Subset, FS_CardinalityType
<1>3. ASSUME B # {} PROVE FALSE
  <2>1. B \in SUBSET Nat
    BY <1>1
  <2>2. PICK b \in B : \A i \in B : b <= i
    <3> HIDE DEF B
    <3> QED BY <1>3, <2>1, SmallestMember
  <2>3. b \in 1..Cardinality(F) /\ b \in Nat /\ ~ Has(b)
    <3>1. b \in 1..Cardinality(F) /\ ~ Has(b)
      <4> HIDE DEF Has
      <4> QED OBVIOUS
    <3>2. b \in Nat
      <4> HIDE DEF B
      <4> QED BY <2>1
    <3> QED BY <3>1, <3>2
  <2>4. CASE b = 1
    <3>1. F # {}
      BY <1>1, <2>3, FS_EmptySet
    <3>2. PICK m \in F : \A k \in F : m <= k
      BY <3>1, SmallestMember
    <3>3. ASSUME NEW k \in Below(m) PROVE FALSE
      <4>1. k \in F /\ k < m /\ k \in Nat /\ m \in Nat
        OBVIOUS
      <4> QED BY <3>2, <4>1
    <3>4. Cardinality(Below(m)) = b - 1
      <4>1. Below(m) = {}
        <5> HIDE DEF Below
        <5> QED BY <3>3
      <4> QED BY <2>4, <4>1, FS_EmptySet
    <3> QED BY <2>3, <3>4
  <2>5. CASE b # 1
    <3>1. b - 1 \in 1..Cardinality(F) /\ b - 1 \notin B
      <4>1. b - 1 \in 1..Cardinality(F) /\ ~ b <= b - 1
        BY <1>1, <2>3, <2>5
      <4> HIDE DEF B
      <4> QED BY <4>1, <2>2
    <3>2. PICK u \in F : Cardinality(Below(u)) = (b - 1) - 1
      BY <3>1
    <3> DEFINE U == Below(u) \cup {u}
    <3>3. IsFiniteSet(U) /\ Cardinality(U) = b - 1
      <4>1. u \notin Below(u)
        OBVIOUS
      <4> HIDE DEF Below
      <4>2. Cardinality(U) = Cardinality(Below(u)) + 1 /\ IsFiniteSet(U)
        BY <1>2, <4>1, FS_AddElement
      <4> QED BY <1>1, <2>3, <2>5, <3>2, <4>2
    <3>4. F \ U # {}
      <4>1. F # U
        <5> HIDE DEF U, Below
        <5> QED BY <1>1, <2>3, <3>3
      <4>2. U \subseteq F
        OBVIOUS
      <4> HIDE DEF U
      <4> QED BY <4>1, <4>2
    <3>5. PICK m \in F \ U : \A k \in F \ U : m <= k
      <4> HIDE DEF U
      <4>1. F \ U \in SUBSET Nat
        OBVIOUS
      <4> QED BY <3>4, <4>1, SmallestMember
    <3>6. Below(m) = U
      <4>1. u < m
        BY <3>5
      <4>2. ASSUME NEW k \in F, k < m PROVE k \in U
        <5> HIDE DEF U
        <5> QED BY <3>5, <4>2
      <4>3. ASSUME NEW k \in U PROVE k \in F /\ k < m
        BY <4>1, <4>3
      <4> QED BY <4>2, <4>3
    <3>7. Cardinality(Below(m)) = b - 1
      BY <3>3, <3>6
    <3> QED BY <2>3, <3>7
  <2> QED BY <2>4, <2>5
<1>4. Has(n)
  BY <1>3
<1> QED BY <1>4

(* A function on an interval is a sequence. *)
LEMMA IsSequence ==
  ASSUME NEW S, NEW n \in Nat, NEW s \in [1..n -> S]
  PROVE  s \in Seq(S) /\ Len(s) = n /\ DOMAIN s = 1..n
<1>1. s \in Seq(S)
  BY SeqDef
<1>2. DOMAIN s = 1..Len(s) /\ Len(s) \in Nat /\ DOMAIN s = 1..n
  BY <1>1, LenProperties
<1>3. (n \in 1..n <=> n \in 1..Len(s)) /\ (Len(s) \in 1..n <=> Len(s) \in 1..Len(s))
  BY <1>2
<1> QED BY <1>1, <1>2, <1>3

(* Appending to a sequence leaves what is below as it is. *)
LEMMA OneMoreOnTop ==
  ASSUME NEW F, NEW s \in Seq(F), NEW w \in F, NEW t, t = Append(s, w)
  PROVE  t \in Seq(F) /\ Len(t) = Len(s) + 1 /\ (\A i \in 1..Len(s) : t[i] = s[i]) /\ t[Len(s) + 1] = w
BY AppendProperties

(* A sequence without its last element *)
Butlast(s) == SubSeq(s, 1, Len(s) - 1)
LEMMA OneLessOnTop ==
  ASSUME NEW F, NEW s \in Seq(F), s # <<>>, NEW t, t = Butlast(s)
  PROVE  t \in Seq(F) /\ Len(t) = Len(s) - 1 /\ Len(s) \in Nat \ {0} /\ \A i \in 1..Len(t) : t[i] = s[i]
<1>1. Len(s) \in Nat \ {0} /\ s \in [1..Len(s) -> F]
  <2>1. Len(s) \in Nat \ {0}
    BY EmptySeq
  <2> QED BY <2>1, LenProperties
<1>2. PICK k \in Nat : k = Len(s) - 1
  <2>1. PICK l \in Nat \ {0} : l = Len(s)
    BY <1>1
  <2>2. l - 1 \in Nat
    OBVIOUS
  <2> QED BY <2>1, <2>2
<1>3. t = SubSeq(s, 1, k)
  BY <1>2 DEF Butlast
<1>4. \A i \in 1..k : s[i] \in F
  <2>1. ASSUME NEW i \in 1..k PROVE s[i] \in F
    <3>1. i \in 1..Len(s)
      BY <1>1, <1>2
    <3> QED BY <1>1, <3>1
  <2> QED BY <2>1
<1>5. 1 \in Int /\ k \in Int
  BY <1>2
<1>6. t \in Seq(F) /\ Len(t) = IF 1 <= k THEN k - 1 + 1 ELSE 0
  BY ONLY <1>3, <1>4, <1>5, SubSeqProperties
<1>7. \A i \in 1..(k - 1 + 1) : t[i] = s[1 + i - 1]
  BY ONLY <1>3, <1>4, <1>5, SubSeqProperties
<1>8. Len(t) = k /\ \A i \in 1..k : t[i] = s[i]
  BY <1>2, <1>6, <1>7
<1> QED BY <1>1, <1>2, <1>6, <1>8

(* Another last element: how long the sequence is, what is last and what is *)
(* before it.                                                              *)
OnTop(s, w) == Append(Butlast(s), w)
LEMMA ReplacedTypes ==
  ASSUME NEW F, NEW s \in Seq(F), s # <<>>, NEW w \in F, NEW t, t = OnTop(s, w)
  PROVE  t \in Seq(F) /\ Len(t) = Len(s) /\ Len(s) \in Nat \ {0}
<1>1. PICK u : u = Butlast(s)
  OBVIOUS
<1>2. u \in Seq(F) /\ Len(u) = Len(s) - 1 /\ Len(s) \in Nat \ {0}
  BY <1>1, OneLessOnTop
<1>3. t \in Seq(F) /\ Len(t) = Len(u) + 1
  BY <1>1, <1>2, OneMoreOnTop DEF OnTop
<1> QED BY <1>2, <1>3

LEMMA ReplacedTop ==
  ASSUME NEW F, NEW s \in Seq(F), s # <<>>, NEW w \in F, NEW t, t = OnTop(s, w)
  PROVE  t[Len(s)] = w
<1>1. PICK u : u = Butlast(s)
  OBVIOUS
<1>2. u \in Seq(F) /\ Len(u) = Len(s) - 1 /\ Len(s) \in Nat \ {0}
  BY <1>1, OneLessOnTop
<1>3. t[Len(u) + 1] = w
  BY <1>1, <1>2, OneMoreOnTop DEF OnTop
<1> QED BY <1>2, <1>3

LEMMA ReplacedBelow ==
  ASSUME NEW F, NEW s \in Seq(F), s # <<>>, NEW w \in F, NEW t, t = OnTop(s, w)
  PROVE  \A i \in 1..Len(s) : i # Len(s) => t[i] = s[i]
<1>1. PICK u : u = Butlast(s)
  OBVIOUS
<1>2. u \in Seq(F) /\ Len(u) = Len(s) - 1 /\ Len(s) \in Nat \ {0} /\ \A i \in 1..Len(u) : u[i] = s[i]
  BY <1>1, OneLessOnTop
<1>3. \A i \in 1..Len(u) : t[i] = u[i]
  BY <1>1, <1>2, OneMoreOnTop DEF OnTop
<1> QED BY <1>2, <1>3

(* The last element is one of those of the sequence. *)
LEMMA LastTypes ==
  ASSUME NEW F, NEW s \in Seq(F), s # <<>>
  PROVE  s[Len(s)] \in F
<1>1. Len(s) \in Nat \ {0}
  BY EmptySeq
<1>2. s \in [1..Len(s) -> F]
  BY LenProperties
<1> QED BY <1>1, <1>2
==============================================================================
