-------------------------- MODULE OrderedMapProofs --------------------------
(***************************************************************************)
(* For any set of variables, keys and values: no call on a map writes      *)
(* outside of the map's block, unless the map was cleared, no key gets     *)
(* into a map twice, no block is lost or freed twice, == is what the       *)
(* program can tell apart, and, while no literal repeats a key, each call  *)
(* does to the list of pairs what the map of the language promises.        *)
(***************************************************************************)
EXTENDS OrderedMapRefinement, SequenceTheorems, FiniteSetTheorems, FunctionTheorems,
        IntervalLemmas

LEMMA AsSizeIsNat ==
  ASSUME NEW n \in Int
  PROVE  AsSize(n) \in Nat
BY SizeAssumption DEF AsSize

LEMMA MapFields ==
  ASSUME NEW m \in Maps
  PROVE  /\ m.pairs \in Seq(Pairs) /\ Len(m.pairs) \in Nat
         /\ m.c \in Nat /\ m.room \in Nat /\ m.null \in BOOLEAN
BY LenProperties DEF Maps

-----------------------------------------------------------------------------
(* The search. *)

(* A key that is found is found at a first index. *)
LEMMA FirstIsFound ==
  ASSUME NEW s \in SUBSET Nat, s # {}
  PROVE  FirstIn(s) \in s
<1>1. \E i \in s : \A j \in s : i <= j
  BY SmallestMember
<1> QED
  BY <1>1 DEF FirstIn

LEMMA FoundIndex ==
  ASSUME NEW pairs \in Seq(Pairs), NEW k, Found(pairs, k) # {}
  PROVE  /\ FirstIn(Found(pairs, k)) \in 1..Len(pairs)
         /\ pairs[FirstIn(Found(pairs, k))].f = k
<1>1. DOMAIN pairs = 1..Len(pairs) /\ Len(pairs) \in Nat
  BY LenProperties
<1>2. Found(pairs, k) \in SUBSET Nat
  BY <1>1 DEF Found
<1>3. FirstIn(Found(pairs, k)) \in Found(pairs, k)
  BY <1>2, FirstIsFound
<1> QED
  BY <1>1, <1>3 DEF Found

-----------------------------------------------------------------------------
(* What _set and _merge write. *)

(* A key that is there keeps its place. *)
LEMMA UpdatedInPlace ==
  ASSUME NEW pairs \in Seq(Pairs), NEW k \in Keys, NEW v \in Values,
         Lookup(pairs, k) # {}
  PROVE  /\ Updated(pairs, k, v) \in Seq(Pairs)
         /\ Len(Updated(pairs, k, v)) = Len(pairs)
         /\ Distinct(pairs) => Distinct(Updated(pairs, k, v))
<1> DEFINE i == FirstIn(Found(pairs, k))
           p == [pairs[i] EXCEPT !.s = v]
           u == [pairs EXCEPT ![i] = p]
<1>1. i \in 1..Len(pairs)
  BY FoundIndex DEF Lookup
<1>2. pairs[i] \in Pairs
  BY <1>1, ElementOfSeq
<1>3. p \in Pairs /\ p.f = pairs[i].f
  BY <1>2 DEF Pairs
<1>4. Updated(pairs, k, v) = u
  BY DEF Updated, Lookup
<1> HIDE DEF i, p
<1>5. /\ u \in Seq(Pairs) /\ Len(u) = Len(pairs)
      /\ \A j \in 1..Len(pairs) : u[j] = IF j = i THEN p ELSE pairs[j]
  BY <1>1, <1>3, ExceptSeq
<1>6. DOMAIN pairs = 1..Len(pairs) /\ DOMAIN u = 1..Len(pairs)
  BY <1>5, LenProperties
<1>7. \A j \in 1..Len(pairs) : u[j].f = pairs[j].f
  BY <1>3, <1>5
<1>8. Distinct(pairs) => Distinct(u)
  BY <1>6, <1>7 DEF Distinct
<1> QED
  BY <1>4, <1>5, <1>8

(* A key that is not there goes to the end. *)
LEMMA UpdatedAtEnd ==
  ASSUME NEW pairs \in Seq(Pairs), NEW k \in Keys, NEW v \in Values,
         Lookup(pairs, k) = {}
  PROVE  /\ Updated(pairs, k, v) \in Seq(Pairs)
         /\ Len(Updated(pairs, k, v)) = Len(pairs) + 1
         /\ Distinct(pairs) => Distinct(Updated(pairs, k, v))
<1> DEFINE u == Append(pairs, Pair(k, v))
<1>1. Pair(k, v) \in Pairs /\ Pair(k, v).f = k
  BY DEF Pair, Pairs
<1>2. Updated(pairs, k, v) = u
  BY DEF Updated, NewPairs
<1>3. /\ u \in Seq(Pairs) /\ Len(u) = Len(pairs) + 1
      /\ \A j \in 1..Len(pairs) : u[j] = pairs[j]
      /\ u[Len(pairs) + 1] = Pair(k, v)
  BY <1>1, AppendProperties
<1>4. /\ Len(pairs) \in Nat /\ DOMAIN pairs = 1..Len(pairs)
      /\ DOMAIN u = 1..Len(pairs) + 1
  BY <1>3, LenProperties
<1>5. \A j \in 1..Len(pairs) : pairs[j].f # k
  BY <1>4 DEF Lookup, Found
<1> HIDE DEF u
<1>6. ASSUME Distinct(pairs), NEW a \in DOMAIN u, NEW b \in DOMAIN u, u[a].f = u[b].f
      PROVE  a = b
  <2>1. CASE a \in 1..Len(pairs) /\ b \in 1..Len(pairs)
    BY <1>3, <1>4, <1>6, <2>1 DEF Distinct
  <2>2. CASE a = Len(pairs) + 1 /\ b \in 1..Len(pairs)
    BY <1>1, <1>3, <1>5, <1>6, <2>2
  <2>3. CASE b = Len(pairs) + 1 /\ a \in 1..Len(pairs)
    BY <1>1, <1>3, <1>5, <1>6, <2>3
  <2> QED
    BY <1>4, <2>1, <2>2, <2>3
<1>7. Distinct(pairs) => Distinct(u)
  BY <1>6 DEF Distinct
<1> QED
  BY <1>2, <1>3, <1>7

(* What _remove leaves. *)
LEMMA WithoutPairs ==
  ASSUME NEW pairs \in Seq(Pairs), NEW i \in 1..Len(pairs)
  PROVE  /\ Without(pairs, i) \in Seq(Pairs)
         /\ Len(Without(pairs, i)) = Len(pairs) - 1
         /\ \A j \in 1..Len(pairs) - 1 :
              Without(pairs, i)[j] = pairs[IF j < i THEN j ELSE j + 1]
         /\ Distinct(pairs) => Distinct(Without(pairs, i))
<1> DEFINE a == SubSeq(pairs, 1, i - 1)
           b == SubSeq(pairs, i + 1, Len(pairs))
           n == Len(pairs)
           w == a \o b
<1>1. n \in Nat /\ DOMAIN pairs = 1..n /\ \A j \in 1..n : pairs[j] \in Pairs
  BY LenProperties, ElementOfSeq
<1>2. /\ a \in Seq(Pairs) /\ Len(a) = IF 1 <= i - 1 THEN i - 1 - 1 + 1 ELSE 0
      /\ \A j \in 1..(i - 1) - 1 + 1 : a[j] = pairs[1 + j - 1]
  <2>1. \A j \in 1..i - 1 : pairs[j] \in Pairs
    BY <1>1
  <2> QED
    BY <1>1, <2>1, SubSeqProperties
<1>3. /\ b \in Seq(Pairs) /\ Len(b) = IF i + 1 <= n THEN n - (i + 1) + 1 ELSE 0
      /\ \A j \in 1..n - (i + 1) + 1 : b[j] = pairs[i + 1 + j - 1]
  <2>1. \A j \in i + 1..n : pairs[j] \in Pairs
    BY <1>1
  <2>2. i + 1 \in Int /\ n \in Int
    BY <1>1
  <2> HIDE DEF n
  <2>3. /\ SubSeq(pairs, i + 1, n) \in Seq(Pairs)
        /\ Len(SubSeq(pairs, i + 1, n)) = IF i + 1 <= n THEN n - (i + 1) + 1 ELSE 0
        /\ \A j \in 1..n - (i + 1) + 1 : SubSeq(pairs, i + 1, n)[j] = pairs[i + 1 + j - 1]
    BY <2>1, <2>2, SubSeqProperties
  <2> QED
    BY <2>3 DEF n
<1>4. Len(a) = i - 1 /\ \A j \in 1..i - 1 : a[j] = pairs[j]
  BY <1>1, <1>2
<1>5. Len(b) = n - i /\ \A j \in 1..n - i : b[j] = pairs[i + j]
  <2> HIDE DEF b
  <2>1. Len(b) = n - i
    <3>1. i \in Nat /\ n \in Nat /\ i <= n
      BY <1>1
    <3>2. Len(b) = IF i + 1 <= n THEN n - (i + 1) + 1 ELSE 0
      BY <1>3
    <3> HIDE DEF n
    <3>3. CASE i + 1 <= n
      BY <3>1, <3>2, <3>3
    <3>4. CASE ~(i + 1 <= n)
      BY <3>1, <3>2, <3>4
    <3> QED
      BY <3>3, <3>4
  <2>2. ASSUME NEW j \in 1..n - i PROVE b[j] = pairs[i + j]
    <3>1. j \in 1..n - (i + 1) + 1 /\ i + 1 + j - 1 = i + j
      BY <1>1
    <3> QED
      BY <1>3, <3>1
  <2> QED
    BY <2>1, <2>2
<1>6. Without(pairs, i) = w
  BY DEF Without
<1> HIDE DEF a, b, n
<1>7. /\ w \in Seq(Pairs) /\ Len(w) = Len(a) + Len(b)
      /\ \A j \in 1..Len(a) + Len(b) :
           w[j] = IF j <= Len(a) THEN a[j] ELSE b[j - Len(a)]
  BY <1>2, <1>3, ConcatProperties
<1> DEFINE at(j) == IF j < i THEN j ELSE j + 1
<1>8. i \in 1..n
  BY DEF n
<1>9. Len(w) = n - 1 /\ \A j \in 1..n - 1 : w[j] = pairs[at(j)]
  <2>1. Len(w) = n - 1
    BY <1>1, <1>4, <1>5, <1>7, <1>8
  <2>2. ASSUME NEW j \in 1..n - 1, j < i PROVE w[j] = pairs[at(j)]
    BY <1>1, <1>4, <1>5, <1>7, <1>8, <2>2
  <2>3. ASSUME NEW j \in 1..n - 1, ~(j < i) PROVE w[j] = pairs[at(j)]
    <3>1. w[j] = b[j - (i - 1)]
      BY <1>1, <1>4, <1>5, <1>7, <1>8, <2>3
    <3>2. j - (i - 1) \in 1..n - i
      BY <1>1, <1>8, <2>3
    <3> QED
      BY <1>1, <1>5, <1>8, <2>3, <3>1, <3>2
  <2> QED
    BY <2>1, <2>2, <2>3
<1>10. DOMAIN w = 1..n - 1
  BY <1>7, <1>9, LenProperties
<1> HIDE DEF w
<1>11. ASSUME Distinct(pairs), NEW x \in 1..n - 1, NEW y \in 1..n - 1,
              w[x].f = w[y].f
       PROVE  x = y
  <2>1. at(x) \in 1..n /\ at(y) \in 1..n
    BY <1>1, <1>8
  <2>2. at(x) = at(y)
    <3> HIDE DEF at
    <3> QED
      BY <1>1, <1>9, <1>11, <2>1 DEF Distinct
  <2> QED
    BY <1>1, <1>8, <2>2
<1>12. Distinct(pairs) => Distinct(w)
  BY <1>10, <1>11 DEF Distinct
<1> QED
  BY <1>6, <1>7, <1>9, <1>12 DEF n

-----------------------------------------------------------------------------
(* Maps in their blocks. *)

LEMMA FreshSound ==
  ASSUME NEW pairs \in Seq(Pairs), NEW c \in Nat, Len(pairs) <= c
  PROVE  Fresh(pairs, c) \in Maps /\ Sound(Fresh(pairs, c))
BY DEF Fresh, Maps, Sound

LEMMA GrownSound ==
  ASSUME NEW m \in Maps, NEW c \in Nat, Len(m.pairs) <= c
  PROVE  /\ Grown(m, c) \in Maps /\ Sound(Grown(m, c))
         /\ Grown(m, c).pairs = m.pairs /\ Grown(m, c).c = c
         /\ Grown(m, c).room = c /\ ~Grown(m, c).null
BY DEF Grown, Maps, Sound

(* A map made to hold l pairs does so, unless it was cleared. *)
LEMMA EnsuredSound ==
  ASSUME NEW m \in Maps, Sound(m), NEW l \in Nat
  PROVE  /\ Ensured(m, l) \in Maps /\ Sound(Ensured(m, l))
         /\ Ensured(m, l).pairs = m.pairs /\ l <= Ensured(m, l).c
         /\ Ensured(m, l).null => Ensured(m, l) = m
<1>1. CASE Fits(m, l)
  BY <1>1 DEF Ensured, Fits, Maps
<1>2. CASE ~Fits(m, l)
  <2>1. m.c \in Nat /\ m.room \in Nat /\ m.pairs \in Seq(Pairs)
    BY DEF Maps
  <2>2. Len(m.pairs) <= m.c
    BY <2>1 DEF Sound
  <2>3. Len(m.pairs) <= l
    BY <1>2, <2>1, <2>2 DEF Fits
  <2> QED
    BY <1>2, <2>3, GrownSound DEF Ensured
<1> QED
  BY <1>1, <1>2

LEMMA ClearedSound ==
  ASSUME NEW m \in Maps
  PROVE  /\ Cleared(m) \in Maps /\ Sound(Cleared(m)) /\ Cleared(m).pairs = <<>>
         /\ [Cleared(m) EXCEPT !.c = 0] \in Maps
         /\ Sound([Cleared(m) EXCEPT !.c = 0])
         /\ [Cleared(m) EXCEPT !.c = 0].pairs = <<>>
<1>1. <<>> \in Seq(Pairs)
  BY EmptySeq
<1> QED
  BY <1>1 DEF Cleared, Maps, Sound

LEMMA EmptyDistinct == Distinct(<<>>)
BY DEF Distinct

LEMMA TailDistinct ==
  ASSUME NEW pairs \in Seq(Pairs), pairs # <<>>, Distinct(pairs)
  PROVE  Distinct(Tail(pairs))
<1>1. /\ Tail(pairs) \in Seq(Pairs) /\ Len(Tail(pairs)) = Len(pairs) - 1
      /\ \A i \in 1..Len(Tail(pairs)) : Tail(pairs)[i] = pairs[i + 1]
  BY HeadTailProperties
<1>2. /\ DOMAIN Tail(pairs) = 1..Len(pairs) - 1
      /\ DOMAIN pairs = 1..Len(pairs) /\ Len(pairs) \in Nat
  BY <1>1, LenProperties
<1>3. ASSUME NEW i \in 1..Len(pairs) - 1, NEW j \in 1..Len(pairs) - 1,
             Tail(pairs)[i].f = Tail(pairs)[j].f
      PROVE  i = j
  <2>1. i + 1 \in DOMAIN pairs /\ j + 1 \in DOMAIN pairs
    BY <1>2
  <2>2. pairs[i + 1].f = pairs[j + 1].f
    BY <1>1, <1>3
  <2>3. i + 1 = j + 1
    BY <2>1, <2>2 DEF Distinct
  <2> QED
    BY <1>2, <2>3
<1> QED
  BY <1>2, <1>3 DEF Distinct

(* The pairs of a map may change as long as they fit. *)
LEMMA PairsReplaced ==
  ASSUME NEW m \in Maps, NEW pairs \in Seq(Pairs)
  PROVE  /\ [m EXCEPT !.pairs = pairs] \in Maps
         /\ [m EXCEPT !.pairs = pairs].pairs = pairs
         /\ [m EXCEPT !.pairs = pairs].c = m.c
         /\ [m EXCEPT !.pairs = pairs].room = m.room
         /\ [m EXCEPT !.pairs = pairs].null = m.null
BY DEF Maps

(* A write that CanPut allows is inside of the block, and it takes at most *)
(* one more pair.                                                          *)
LEMMA PutSound ==
  ASSUME NEW m \in Maps, Sound(m), NEW k \in Keys, NEW v \in Values, CanPut(m, k)
  PROVE  /\ Put(m, k, v) \in Maps /\ Sound(Put(m, k, v))
         /\ Put(m, k, v).c = m.c
         /\ Len(Put(m, k, v).pairs) <= Len(m.pairs) + 1
         /\ Distinct(m.pairs) => Distinct(Put(m, k, v).pairs)
<1> DEFINE u == Updated(m.pairs, k, v)
<1>1. /\ m.pairs \in Seq(Pairs) /\ Len(m.pairs) \in Nat
      /\ m.c \in Nat /\ m.room \in Nat /\ m.null \in BOOLEAN
  BY MapFields
<1>2. Put(m, k, v) = [m EXCEPT !.pairs = u]
  BY DEF Put
<1>3. /\ u \in Seq(Pairs)
      /\ Distinct(m.pairs) => Distinct(u)
      /\ \/ Len(u) = Len(m.pairs) /\ m.pairs # <<>>
         \/ Len(u) = Len(m.pairs) + 1 /\ Len(m.pairs) < m.room
  <2>1. CASE Lookup(m.pairs, k) # {}
    <3>1. m.pairs # <<>>
      BY <2>1 DEF Lookup, Found
    <3> QED
      BY <1>1, <2>1, <3>1, UpdatedInPlace
  <2>2. CASE Lookup(m.pairs, k) = {}
    BY <1>1, <2>2, UpdatedAtEnd DEF CanPut
  <2> QED
    BY <2>1, <2>2
<1> HIDE DEF u
<1> DEFINE w == [m EXCEPT !.pairs = u]
<1>4. /\ w \in Maps /\ w.pairs = u /\ w.c = m.c
      /\ w.room = m.room /\ w.null = m.null
  BY <1>3, PairsReplaced
<1> HIDE DEF w
<1>5. Len(u) \in Nat /\ Len(u) <= Len(m.pairs) + 1
  BY <1>1, <1>3
<1>6. Sound(w)
  BY <1>1, <1>3, <1>4, <1>5 DEF Sound
<1> QED
  BY <1>2, <1>3, <1>4, <1>5, <1>6 DEF w

-----------------------------------------------------------------------------
(* The inductive invariant. *)

(* A merge that is over leaves nothing to do. *)
MergeOver == into = NoVar => todo = <<>>

(* Distinct keys stay distinct if the literals have them. *)
DistinctFromLiterals == ~DuplicateLiterals => KeysDistinct /\ Distinct(todo)

MapInv ==
  /\ MapTypes /\ MergeOver
  /\ RoomUnlessCleared /\ MergeFits /\ CrashOnlyCleared
  /\ DistinctFromLiterals

MapOk(m) == m \in Maps /\ Sound(m) /\ (~DuplicateLiterals => Distinct(m.pairs))

LEMMA MapOkHolds ==
  ASSUME MapInv, NEW x \in Vars
  PROVE  MapOk(map[x]) /\ map[x].pairs \in Seq(Pairs) /\ Len(map[x].pairs) \in Nat
BY MapFields DEF MapInv, MapTypes, RoomUnlessCleared, DistinctFromLiterals, KeysDistinct, MapOk

(* Any map that is in order may take the place of another one. *)
LEMMA StoreKeeps ==
  ASSUME MapInv, NEW x \in Vars, NEW m, MapOk(m),
         map' = [map EXCEPT ![x] = m],
         into' = NoVar, todo' = <<>>, status' \in {"running", "exited"}
  PROVE  MapInv'
<1>1. map' \in [Vars -> Maps] /\ map'[x] = m /\ \A y \in Vars \ {x} : map'[y] = map[y]
  BY DEF MapInv, MapTypes, MapOk
<1>2. <<>> \in Seq(Pairs)
  BY EmptySeq
<1>3. MapTypes' /\ MergeOver' /\ MergeFits' /\ CrashOnlyCleared'
  BY <1>1, <1>2 DEF MapTypes, MergeOver, MergeFits, CrashOnlyCleared
<1>4. RoomUnlessCleared' /\ DistinctFromLiterals'
  BY <1>1, EmptyDistinct DEF MapInv, MapOk, RoomUnlessCleared, DistinctFromLiterals, KeysDistinct
<1> QED
  BY <1>3, <1>4 DEF MapInv

LEMMA LiteralKeeps ==
  ASSUME MapInv, NEW x \in Vars, NEW pairs \in Seq(Pairs), Literal(x, pairs)
  PROVE  MapInv'
<1>1. Len(pairs) \in Nat
  BY LenProperties
<1>2. MapOk(Fresh(pairs, Len(pairs)))
  <2>1. Fresh(pairs, Len(pairs)).pairs = pairs
    BY DEF Fresh
  <2> QED
    BY <1>1, <2>1, FreshSound DEF Literal, MapOk
<1> QED
  BY <1>2, StoreKeeps DEF Literal, Idle, Stays, Replace, MapInv, MergeOver

LEMMA AssignKeeps ==
  ASSUME MapInv, NEW x \in Vars, NEW y \in Vars, Assign(x, y)
  PROVE  MapInv'
<1> DEFINE n == map[y]
<1>1. MapOk(n) /\ n.pairs \in Seq(Pairs) /\ Len(n.pairs) \in Nat
  BY MapOkHolds
<1> HIDE DEF n
<1>2. n.c \in Nat /\ Len(n.pairs) <= n.c
  BY <1>1, MapFields DEF MapOk, Sound
<1>3. Fresh(n.pairs, n.c).pairs = n.pairs
  BY DEF Fresh
<1>4. MapOk(Fresh(n.pairs, n.c))
  BY <1>1, <1>2, <1>3, FreshSound DEF MapOk
<1>5. MapOk(Fresh(map[y].pairs, map[y].c))
  BY <1>4 DEF n
<1> QED
  BY <1>5, StoreKeeps DEF Assign, Idle, Stays, Replace, MapInv, MergeOver

LEMMA RemoveKeeps ==
  ASSUME MapInv, NEW x \in Vars, NEW k \in Keys, Remove(x, k)
  PROVE  MapInv'
<1> DEFINE m == map[x]
           i == FirstIn(Found(m.pairs, k))
           w == Without(m.pairs, i)
<1>1. MapOk(m) /\ m.pairs \in Seq(Pairs) /\ Len(m.pairs) \in Nat
  BY MapOkHolds
<1>2. i \in 1..Len(m.pairs)
  BY <1>1, FoundIndex DEF Remove, Has
<1>3. map' = [map EXCEPT ![x] = [m EXCEPT !.pairs = w]]
  BY DEF Remove, Replace
<1> HIDE DEF i
<1>4. /\ w \in Seq(Pairs) /\ Len(w) = Len(m.pairs) - 1
      /\ Distinct(m.pairs) => Distinct(w)
  BY <1>1, <1>2, WithoutPairs
<1> HIDE DEF w, m
<1> DEFINE n == [m EXCEPT !.pairs = w]
<1>5. /\ n \in Maps /\ n.pairs = w /\ n.c = m.c
      /\ n.room = m.room /\ n.null = m.null
  BY <1>1, <1>4, PairsReplaced DEF MapOk
<1>6. map' = [map EXCEPT ![x] = n]
  BY <1>3
<1> HIDE DEF n
<1>7. m.c \in Nat /\ m.pairs # <<>>
  BY <1>1, <1>2, MapFields, EmptySeq DEF MapOk
<1>8. Sound(n)
  BY <1>1, <1>4, <1>5, <1>7 DEF MapOk, Sound
<1>9. MapOk(n)
  BY <1>1, <1>4, <1>5, <1>8 DEF MapOk
<1> QED
  BY <1>6, <1>9, StoreKeeps DEF Remove, Idle, Stays, MapInv, MergeOver

LEMMA ClearKeeps ==
  ASSUME MapInv, NEW x \in Vars, Clear(x)
  PROVE  MapInv'
<1>1. map[x] \in Maps
  BY MapOkHolds DEF MapOk
<1>2. MapOk(Cleared(map[x]))
  BY <1>1, ClearedSound, EmptyDistinct DEF MapOk
<1> QED
  BY <1>2, StoreKeeps DEF Clear, Replace, Idle, Stays, MapInv, MergeOver

LEMMA ReserveKeeps ==
  ASSUME MapInv, NEW x \in Vars, NEW n \in Int, Reserve(x, n)
  PROVE  MapInv'
<1>1. MapOk(map[x])
  BY MapOkHolds
<1>2. AsSize(n) \in Nat
  BY AsSizeIsNat
<1>3. CASE AsSize(n) > map[x].c /\ ~Allocatable(AsSize(n))
  <2>1. map' = map /\ into' = NoVar /\ todo' = <<>> /\ status' = "exited"
    BY <1>3 DEF Reserve, Idle, MapInv, MergeOver
  <2>2. map' = [map EXCEPT ![x] = map[x]]
    BY <2>1 DEF MapInv, MapTypes
  <2> QED
    BY <1>1, <2>1, <2>2, StoreKeeps
<1>4. CASE ~(AsSize(n) > map[x].c /\ ~Allocatable(AsSize(n)))
  <2>1. MapOk(Ensured(map[x], AsSize(n)))
    BY <1>1, <1>2, EnsuredSound DEF MapOk
  <2>2. /\ map' = [map EXCEPT ![x] = Ensured(map[x], AsSize(n))]
        /\ into' = NoVar /\ todo' = <<>> /\ status' = "running"
    BY <1>4 DEF Reserve, Replace, Idle, MapInv, MergeOver
  <2> QED
    BY <2>1, <2>2, StoreKeeps
<1> QED
  BY <1>3, <1>4

LEMMA ShrinkKeeps ==
  ASSUME MapInv, NEW x \in Vars, Shrink(x)
  PROVE  MapInv'
<1> DEFINE m == map[x]
           l == Len(m.pairs)
           n == IF l = 0 THEN [Cleared(m) EXCEPT !.c = 0] ELSE Grown(m, l)
<1>1. MapOk(m) /\ m.pairs \in Seq(Pairs) /\ l \in Nat
  BY MapOkHolds
<1>2. MapOk(n)
  <2>1. CASE l = 0
    BY <1>1, <2>1, ClearedSound, EmptyDistinct DEF MapOk
  <2>2. CASE l # 0
    <3> HIDE DEF m
    <3>1. /\ Grown(m, l) \in Maps /\ Sound(Grown(m, l))
          /\ Grown(m, l).pairs = m.pairs
      BY <1>1, GrownSound DEF MapOk
    <3> QED
      BY <1>1, <2>2, <3>1 DEF MapOk
  <2> QED
    BY <2>1, <2>2
<1>3. map' = [map EXCEPT ![x] = n]
  BY DEF Shrink, Replace
<1> HIDE DEF n
<1> QED
  BY <1>2, <1>3, StoreKeeps DEF Shrink, Idle, Stays, MapInv, MergeOver

(* Ensured made the room, so that only a cleared map has none. *)
LEMMA SetKeeps ==
  ASSUME MapInv, NEW x \in Vars, NEW k \in Keys, NEW v \in Values, Set(x, k, v)
  PROVE  MapInv'
<1> DEFINE o == map[x]
           l == Len(o.pairs)
           m == IF Lookup(o.pairs, k) # {} THEN o ELSE Ensured(o, l + 1)
<1>1. MapOk(o) /\ o.pairs \in Seq(Pairs) /\ l \in Nat
  BY MapOkHolds
<1>2. /\ MapOk(m) /\ m.pairs = o.pairs /\ (m.null => m = o)
      /\ Lookup(o.pairs, k) # {} \/ l + 1 <= m.c
  <2>1. CASE Lookup(o.pairs, k) # {}
    BY <1>1, <2>1
  <2>2. CASE Lookup(o.pairs, k) = {}
    <3> HIDE DEF o
    <3> l + 1 \in Nat
      BY <1>1
    <3> HIDE DEF l
    <3>1. /\ Ensured(o, l + 1) \in Maps /\ Sound(Ensured(o, l + 1))
          /\ Ensured(o, l + 1).pairs = o.pairs /\ l + 1 <= Ensured(o, l + 1).c
          /\ Ensured(o, l + 1).null => Ensured(o, l + 1) = o
      BY <1>1, EnsuredSound DEF MapOk
    <3> QED
      BY <1>1, <2>2, <3>1 DEF MapOk
  <2> QED
    BY <2>1, <2>2
<1>3. /\ IF CanPut(m, k)
         THEN map' = [map EXCEPT ![x] = Put(m, k, v)] /\ status' = "running"
         ELSE status' = "crashed" /\ map' = map
      /\ into' = NoVar /\ todo' = <<>>
  BY DEF Set, Replace, Idle, MapInv, MergeOver
<1> HIDE DEF m
<1>4. CASE CanPut(m, k)
  <2>1. MapOk(Put(m, k, v))
    BY <1>2, <1>4, PutSound DEF MapOk
  <2> QED
    BY <1>3, <1>4, <2>1, StoreKeeps
<1>5. CASE ~CanPut(m, k)
  <2>1. m.null /\ m.c > 0
    <3>1. m.c \in Nat /\ m.room \in Nat /\ Len(m.pairs) = l
      BY <1>2, MapFields DEF MapOk
    <3>2. ~(l < m.room) /\ l + 1 <= m.c
      BY <1>2, <1>5, <3>1 DEF CanPut
    <3> QED
      BY <1>1, <1>2, <3>1, <3>2 DEF MapOk, Sound
  <2>2. map[x].null /\ map[x].c > 0
    BY <1>2, <2>1
  <2>3. CrashOnlyCleared'
    BY <1>3, <1>5, <2>2 DEF CrashOnlyCleared
  <2>4. <<>> \in Seq(Pairs)
    BY EmptySeq
  <2>5. MapTypes' /\ MergeOver' /\ MergeFits'
    BY <1>3, <1>5, <2>4 DEF MapInv, MapTypes, MergeOver, MergeFits
  <2>6. RoomUnlessCleared' /\ DistinctFromLiterals'
    BY <1>3, <1>5, EmptyDistinct DEF MapInv, RoomUnlessCleared, DistinctFromLiterals, KeysDistinct
  <2> QED
    BY <2>3, <2>5, <2>6 DEF MapInv
<1> QED
  BY <1>4, <1>5

(* The copy that a merge is given becomes what there is to merge, and the  *)
(* target gets room for all of it.                                         *)
LEMMA MergeBeginKeeps ==
  ASSUME MapInv, NEW x \in Vars, NEW y \in Vars, MergeBegin(x, y)
  PROVE  MapInv'
<1> DEFINE o == map[x]
           n == map[y]
           r == Len(o.pairs) + Len(n.pairs)
           m == Ensured(o, r)
<1>1. MapOk(o) /\ o.pairs \in Seq(Pairs) /\ Len(o.pairs) \in Nat
  BY MapOkHolds
<1>2. MapOk(n) /\ n.pairs \in Seq(Pairs) /\ Len(n.pairs) \in Nat
  BY MapOkHolds
<1>3. /\ map' = [map EXCEPT ![x] = m]
      /\ into' = x /\ todo' = n.pairs /\ status' = "running"
  BY DEF MergeBegin, MergeRoom, Idle
<1> HIDE DEF o, n
<1>4. MapOk(m) /\ m.pairs = o.pairs /\ r <= m.c
  <2> DEFINE a == Len(o.pairs)
             b == Len(n.pairs)
  <2>1. a \in Nat /\ b \in Nat
    BY <1>1, <1>2
  <2> HIDE DEF a, b
  <2>2. a + b \in Nat
    BY <2>1
  <2>3. r \in Nat
    BY <2>2 DEF a, b
  <2> HIDE DEF r
  <2> QED
    BY <1>1, <2>3, EnsuredSound DEF MapOk
<1> HIDE DEF m
<1>5. map' \in [Vars -> Maps] /\ map'[x] = m /\ \A z \in Vars \ {x} : map'[z] = map[z]
  BY <1>3, <1>4 DEF MapInv, MapTypes, MapOk
<1>6. MapTypes' /\ MergeOver' /\ CrashOnlyCleared'
  BY <1>2, <1>3, <1>5, VarsAssumption DEF MapTypes, MergeOver, CrashOnlyCleared
<1>7. MergeFits'
  BY <1>3, <1>4, <1>5 DEF MergeFits
<1>8. RoomUnlessCleared' /\ DistinctFromLiterals'
  BY <1>2, <1>3, <1>4, <1>5 DEF MapInv, MapOk, RoomUnlessCleared, DistinctFromLiterals, KeysDistinct
<1> QED
  BY <1>6, <1>7, <1>8 DEF MapInv

(* One iteration uses at most one place, and there is one for each pair    *)
(* that is left.                                                           *)
LEMMA MergeStepKeeps ==
  ASSUME MapInv, MergeStep
  PROVE  MapInv'
<1> DEFINE x == into
           p == Head(todo)
           m == map[x]
           n == Put(m, p.f, p.s)
<1>1. x \in Vars /\ todo # <<>> /\ into # NoVar
  BY DEF MergeStep, MapInv, MapTypes, MergeOver
<1>2. /\ p \in Pairs /\ Tail(todo) \in Seq(Pairs)
      /\ Len(todo) \in Nat \ {0} /\ Len(Tail(todo)) = Len(todo) - 1
  BY <1>1, HeadTailProperties, EmptySeq DEF MapInv, MapTypes
<1>3. MapOk(m) /\ Len(m.pairs) \in Nat
  BY <1>1, MapOkHolds
<1>4. p.f \in Keys /\ p.s \in Values
  BY <1>2 DEF Pairs
<1>5. Len(m.pairs) + Len(todo) <= m.c /\ m.c \in Nat /\ m.room \in Nat
  BY <1>1, <1>3, MapFields DEF MapInv, MergeFits, MapOk
<1>6. /\ IF CanPut(m, p.f)
         THEN map' = [map EXCEPT ![x] = n] /\ status' = "running" /\ todo' = Tail(todo)
         ELSE status' = "crashed" /\ map' = map /\ todo' = todo
      /\ into' = x
  BY DEF MergeStep
<1> HIDE DEF p, m
<1>7. CASE CanPut(m, p.f)
  <2>1. MapOk(n) /\ n.c = m.c /\ Len(n.pairs) <= Len(m.pairs) + 1
    BY <1>3, <1>4, <1>7, PutSound DEF MapOk
  <2>2. Len(n.pairs) \in Nat
    BY <2>1, MapFields DEF MapOk
  <2> HIDE DEF n
  <2>3. map' \in [Vars -> Maps] /\ map'[x] = n /\ \A z \in Vars \ {x} : map'[z] = map[z]
    BY <1>1, <1>6, <1>7, <2>1 DEF MapInv, MapTypes, MapOk
  <2>4. MapTypes' /\ MergeOver' /\ CrashOnlyCleared'
    BY <1>1, <1>2, <1>6, <1>7, <2>3 DEF MapInv, MapTypes, MergeOver, CrashOnlyCleared
  <2>5. MergeFits'
    <3>1. into' = x /\ todo' = Tail(todo)
      BY <1>6, <1>7
    <3>2. Len(n.pairs) + Len(todo') <= n.c
      BY <1>2, <1>3, <1>5, <2>1, <2>2, <3>1
    <3> QED
      BY <2>3, <3>1, <3>2 DEF MergeFits
  <2>6. RoomUnlessCleared' /\ DistinctFromLiterals'
    <3>1. Distinct(todo) => Distinct(todo')
      <4>1. todo \in Seq(Pairs)
        BY DEF MapInv, MapTypes
      <4>2. todo' = Tail(todo)
        BY <1>6, <1>7
      <4> QED
        BY <1>1, <4>1, <4>2, TailDistinct
    <3> QED
      BY <2>1, <2>3, <3>1 DEF MapInv, MapOk, RoomUnlessCleared, DistinctFromLiterals, KeysDistinct
  <2> QED
    BY <2>4, <2>5, <2>6 DEF MapInv
<1>8. CASE ~CanPut(m, p.f)
  <2>1. m.null /\ m.c > 0
    BY <1>2, <1>3, <1>5, <1>8 DEF CanPut, MapOk, Sound
  <2>2. CrashOnlyCleared'
    BY <1>1, <1>6, <1>8, <2>1 DEF CrashOnlyCleared, m
  <2>3. MapTypes' /\ MergeOver'
    BY <1>1, <1>2, <1>6, <1>8 DEF MapInv, MapTypes, MergeOver
  <2>4. MergeFits'
    BY <1>2, <1>3, <1>5, <1>6, <1>8 DEF MergeFits, m
  <2>5. RoomUnlessCleared' /\ DistinctFromLiterals'
    BY <1>6, <1>8 DEF MapInv, RoomUnlessCleared, DistinctFromLiterals, KeysDistinct
  <2> QED
    BY <2>2, <2>3, <2>4, <2>5 DEF MapInv
<1> QED
  BY <1>7, <1>8

LEMMA MergeEndKeeps ==
  ASSUME MapInv, MergeEnd
  PROVE  MapInv'
<1>1. /\ into' = NoVar /\ todo' = <<>> /\ todo = <<>> /\ map' = map
      /\ status' = status /\ status = "running"
  BY DEF MergeEnd
<1> QED
  BY <1>1 DEF MapInv, MapTypes, MergeOver, RoomUnlessCleared, MergeFits,
              CrashOnlyCleared, DistinctFromLiterals, KeysDistinct

LEMMA StutterKeeps ==
  ASSUME MapInv, UNCHANGED vars
  PROVE  MapInv'
BY DEF vars, MapInv, MapTypes, MergeOver, RoomUnlessCleared, MergeFits,
       CrashOnlyCleared, DistinctFromLiterals, KeysDistinct

LEMMA InitMapInv == Init => MapInv
<1> SUFFICES ASSUME Init PROVE MapInv
  OBVIOUS
<1>1. <<>> \in Seq(Pairs) /\ Len(<<>>) = 0
  BY EmptySeq
<1>2. \A x \in Vars : map[x] = Fresh(<<>>, 0)
  BY DEF Init
<1>3. Fresh(<<>>, 0) \in Maps /\ Sound(Fresh(<<>>, 0)) /\ Fresh(<<>>, 0).pairs = <<>>
  <2>1. \A s \in Seq(Pairs) :
          Len(s) = 0 => Fresh(s, 0) \in Maps /\ Sound(Fresh(s, 0)) /\ Fresh(s, 0).pairs = s
    BY DEF Fresh, Maps, Sound
  <2> QED
    BY <1>1, <2>1
<1>4. map \in [Vars -> Maps]
  BY <1>3 DEF Init
<1>5. MapTypes /\ MergeOver /\ MergeFits /\ CrashOnlyCleared
  BY <1>1, <1>4 DEF Init, MapTypes, MergeOver, MergeFits, CrashOnlyCleared
<1>6. RoomUnlessCleared /\ DistinctFromLiterals
  BY <1>2, <1>3, EmptyDistinct DEF Init, RoomUnlessCleared, DistinctFromLiterals, KeysDistinct
<1> QED
  BY <1>5, <1>6 DEF MapInv

LEMMA NextKeeps ==
  ASSUME MapInv, [Next]_vars
  PROVE  MapInv'
<1>1. ASSUME NEW x \in Vars, Literal(x, <<>>) PROVE MapInv'
  BY <1>1, EmptySeq, LiteralKeeps
<1>2. ASSUME NEW x \in Vars, NEW p \in Pairs, NEW q \in Pairs,
             Literal(x, <<p>>) \/ Literal(x, <<p, q>>)
      PROVE MapInv'
  <2>1. <<p>> \in Seq(Pairs) /\ <<p, q>> \in Seq(Pairs)
    OBVIOUS
  <2> QED
    BY <1>2, <2>1, LiteralKeeps
<1>3. ASSUME NEW x \in Vars, NEW y \in Vars, Assign(x, y) \/ MergeBegin(x, y)
      PROVE MapInv'
  BY <1>3, AssignKeeps, MergeBeginKeeps
<1>4. ASSUME NEW x \in Vars, NEW k \in Keys, Remove(x, k) PROVE MapInv'
  BY <1>4, RemoveKeeps
<1>5. ASSUME NEW x \in Vars, NEW k \in Keys, NEW v \in Values, Set(x, k, v)
      PROVE MapInv'
  BY <1>5, SetKeeps
<1>6. ASSUME NEW x \in Vars, NEW n \in -1..MaxLen, Reserve(x, n) PROVE MapInv'
  BY <1>6, ReserveKeeps, SizeAssumption
<1>7. ASSUME NEW x \in Vars, Clear(x) \/ Shrink(x) PROVE MapInv'
  BY <1>7, ClearKeeps, ShrinkKeeps
<1>8. CASE Next
  BY <1>1, <1>2, <1>3, <1>4, <1>5, <1>6, <1>7, <1>8, MergeStepKeeps, MergeEndKeeps DEF Next
<1>9. CASE UNCHANGED vars
  BY <1>9, StutterKeeps
<1> QED
  BY <1>8, <1>9

-----------------------------------------------------------------------------
LEMMA MapInvHolds == Spec => []MapInv
<1>1. Init => MapInv
  BY InitMapInv
<1>2. MapInv /\ [Next]_vars => MapInv'
  BY NextKeeps
<1> QED
  BY <1>1, <1>2, PTL DEF Spec

(* The block of every map holds its pairs and has the room its capacity    *)
(* says, but for a map that was cleared.                                   *)
THEOREM RoomUnlessClearedHolds == Spec => []RoomUnlessCleared
<1>1. MapInv => RoomUnlessCleared
  BY DEF MapInv
<1> QED
  BY <1>1, MapInvHolds, PTL

(* The room that _merge makes before its loop lasts for the whole loop.    *)
THEOREM MergeFitsHolds == Spec => []MergeFits
<1>1. MapInv => MergeFits
  BY DEF MapInv
<1> QED
  BY <1>1, MapInvHolds, PTL

(* No call writes outside of a block unless a map was cleared before: the  *)
(* stale capacity is the only cause.                                       *)
THEOREM CrashOnlyClearedHolds == Spec => []CrashOnlyCleared
<1>1. MapInv => CrashOnlyCleared
  BY DEF MapInv
<1> QED
  BY <1>1, MapInvHolds, PTL

(* A map whose capacity is that of its block is never written past it. *)
THEOREM CapacitySafeHolds == Spec => []CapacitySafe
<1>1. RoomUnlessCleared /\ MergeFits /\ CrashOnlyCleared => CapacitySafe
  BY DEF CapacitySafe
<1> QED
  BY <1>1, RoomUnlessClearedHolds, MergeFitsHolds, CrashOnlyClearedHolds, PTL

(* Only a literal can put a key into a map twice. *)
THEOREM KeysDistinctHolds ==
  ASSUME ~DuplicateLiterals
  PROVE  Spec => []KeysDistinct
<1>1. MapInv => KeysDistinct
  BY DEF MapInv, DistinctFromLiterals
<1> QED
  BY <1>1, MapInvHolds, PTL

-----------------------------------------------------------------------------
(* The account of the blocks. *)

WithBlock == {x \in Vars : ~map[x].null}

LEMMA WithBlockFinite ==
  IsFiniteSet(WithBlock) /\ Cardinality(WithBlock) \in Nat
<1>1. WithBlock \subseteq Vars
  BY DEF WithBlock
<1> QED
  BY <1>1, VarsAssumption, FS_Subset, FS_CardinalityType

(* A variable that gets another map gives its block up for that map's. *)
LEMMA ReplaceCounts ==
  ASSUME MapInv, NEW x \in Vars, NEW m \in Maps, map' = [map EXCEPT ![x] = m]
  PROVE  Cardinality(WithBlock') = Cardinality(WithBlock) - Owned(map[x]) + Owned(m)
<1>1. /\ map'[x] = m /\ \A y \in Vars \ {x} : map'[y] = map[y]
      /\ m.null \in BOOLEAN /\ map[x].null \in BOOLEAN
  BY MapFields, MapOkHolds DEF MapInv, MapTypes, MapOk
<1>2. WithBlock' = IF m.null THEN WithBlock \ {x} ELSE WithBlock \cup {x}
  BY <1>1 DEF WithBlock
<1>3. x \in WithBlock <=> ~map[x].null
  BY DEF WithBlock
<1>4. /\ Cardinality(WithBlock \ {x}) =
           IF x \in WithBlock THEN Cardinality(WithBlock) - 1 ELSE Cardinality(WithBlock)
      /\ Cardinality(WithBlock \cup {x}) =
           IF x \in WithBlock THEN Cardinality(WithBlock) ELSE Cardinality(WithBlock) + 1
  BY WithBlockFinite, FS_AddElement, FS_RemoveElement
<1> HIDE DEF WithBlock
<1> QED
  BY <1>1, <1>2, <1>3, <1>4, WithBlockFinite DEF Owned

Counted == blocks = Cardinality(WithBlock) + (IF into = NoVar THEN 0 ELSE 1)

LEMMA CountedIsOwned == MapTypes /\ Counted => BlocksOwned
BY WithBlockFinite DEF Counted, WithBlock, BlocksOwned, TypeOK

(* The calls that are one action. *)
LEMMA ReplaceKeepsCount ==
  ASSUME MapInv, MapInv', Counted, NEW x \in Vars, NEW m, Replace(x, m),
         UNCHANGED into
  PROVE  Counted'
<1>1. map'[x] = m /\ m \in Maps
  BY DEF Replace, MapInv, MapTypes
<1>2. Cardinality(WithBlock') = Cardinality(WithBlock) - Owned(map[x]) + Owned(m)
  BY <1>1, ReplaceCounts DEF Replace
<1>3. Owned(map[x]) \in Int /\ Owned(m) \in Int
  BY DEF Owned
<1> QED
  BY <1>2, <1>3, WithBlockFinite DEF Counted, Replace

LEMMA StayKeepsCount ==
  ASSUME Counted, UNCHANGED <<blocks, into>>, WithBlock' = WithBlock
  PROVE  Counted'
BY DEF Counted

LEMMA MergeBeginKeepsCount ==
  ASSUME MapInv, MapInv', Counted, NEW x \in Vars, NEW y \in Vars, MergeBegin(x, y)
  PROVE  Counted'
<1>1. PICK m : /\ map' = [map EXCEPT ![x] = m]
               /\ blocks' = blocks - Owned(map[x]) + Owned(m) + 1
  BY DEF MergeBegin
<1>2. m \in Maps
  BY <1>1 DEF MapInv, MapTypes
<1>3. Cardinality(WithBlock') = Cardinality(WithBlock) - Owned(map[x]) + Owned(m)
  BY <1>1, <1>2, ReplaceCounts
<1>4. Owned(map[x]) \in Int /\ Owned(m) \in Int /\ into = NoVar /\ into' = x /\ x # NoVar
  BY VarsAssumption DEF Owned, MergeBegin, Idle
<1> QED
  BY <1>1, <1>3, <1>4, WithBlockFinite DEF Counted

LEMMA MergeStepKeepsCount ==
  ASSUME MapInv, MapInv', Counted, MergeStep
  PROVE  Counted'
<1>1. into \in Vars /\ map[into] \in Maps
  BY DEF MergeStep, MapInv, MapTypes, MergeOver
<1>2. \A k, v : Put(map[into], k, v).null = map[into].null
  BY <1>1 DEF Put, Maps
<1>3. \A x \in Vars : map'[x].null = map[x].null
  BY <1>1, <1>2 DEF MergeStep, MapInv, MapTypes
<1> QED
  BY <1>3, StayKeepsCount DEF MergeStep, WithBlock

LEMMA MergeEndKeepsCount ==
  ASSUME Counted, MergeEnd
  PROVE  Counted'
<1>1. WithBlock' = WithBlock
  BY DEF MergeEnd, WithBlock
<1> QED
  BY <1>1, WithBlockFinite DEF MergeEnd, MergeFree, Counted

LEMMA CountStep ==
  ASSUME MapInv, MapInv', Counted, [Next]_vars
  PROVE  Counted'
<1>1. ASSUME NEW x \in Vars,
             \/ Literal(x, <<>>)
             \/ \E p, q \in Pairs : Literal(x, <<p>>) \/ Literal(x, <<p, q>>)
             \/ \E y \in Vars : Assign(x, y)
             \/ \E k \in Keys : Remove(x, k)
             \/ Clear(x) \/ Shrink(x)
      PROVE  Counted'
  <2>1. \E m : Replace(x, m) /\ UNCHANGED into
    BY <1>1 DEF Literal, Assign, Remove, Clear, Shrink, Stays
  <2> QED
    BY <2>1, ReplaceKeepsCount
<1>2. ASSUME NEW x \in Vars,
             \/ \E k \in Keys, v \in Values : Set(x, k, v)
             \/ \E n \in -1..MaxLen : Reserve(x, n)
      PROVE  Counted'
  <2>1. \/ \E m : Replace(x, m) /\ UNCHANGED into
        \/ UNCHANGED <<map, blocks, into>>
    BY <1>2 DEF Set, Reserve
  <2> QED
    BY <2>1, ReplaceKeepsCount, StayKeepsCount DEF WithBlock
<1>3. CASE UNCHANGED vars
  BY <1>3, StayKeepsCount DEF vars, WithBlock
<1>4. CASE Next
  BY <1>1, <1>2, <1>4, MergeBeginKeepsCount, MergeStepKeepsCount, MergeEndKeepsCount DEF Next
<1> QED
  BY <1>3, <1>4

LEMMA InitCount == Init => Counted
<1> SUFFICES ASSUME Init PROVE Counted
  OBVIOUS
<1>1. WithBlock = Vars
  BY DEF Init, Fresh, WithBlock
<1> QED
  BY <1>1, VarsAssumption, FS_CardinalityType DEF Init, Counted

(* Whatever is called, no block is leaked and none is freed twice: as many *)
(* blocks as there are maps that are not cleared and copies in a _merge.   *)
THEOREM BlocksOwnedHolds == Spec => []BlocksOwned
<1>1. Init => Counted
  BY InitCount
<1>2. MapInv /\ MapInv' /\ Counted /\ [Next]_vars => Counted'
  BY CountStep
<1>3. MapInv /\ Counted => BlocksOwned
  BY CountedIsOwned DEF MapInv
<1> QED
  BY <1>1, <1>2, <1>3, MapInvHolds, PTL DEF Spec

-----------------------------------------------------------------------------
(* What the program sees of a map decides what == says. *)

LEMMA OnlyFound ==
  ASSUME NEW pairs \in Seq(Pairs), Distinct(pairs), NEW i \in DOMAIN pairs
  PROVE  FirstIn(Found(pairs, pairs[i].f)) = i
<1>1. Found(pairs, pairs[i].f) = {i}
  BY DEF Found, Distinct
<1>2. i \in Nat
  BY LenProperties
<1> QED
  BY <1>1, <1>2, FirstIsFound

LEMMA EqIsObservational ==
  ASSUME NEW m \in Maps, NEW n \in Maps, Distinct(m.pairs), Distinct(n.pairs)
  PROVE  Eq(m, n) <=>
           /\ KeysOf(m) = KeysOf(n)
           /\ \A k \in Keys : /\ Has(m, k) <=> Has(n, k)
                              /\ Has(m, k) => Get(m, k) = Get(n, k)
<1> DEFINE a == m.pairs
           b == n.pairs
<1>1. /\ a \in Seq(Pairs) /\ DOMAIN a = 1..Len(a) /\ Len(a) \in Nat
      /\ b \in Seq(Pairs) /\ DOMAIN b = 1..Len(b) /\ Len(b) \in Nat
  BY MapFields, LenProperties
<1>2. KeysOf(m) = [i \in DOMAIN a |-> a[i].f] /\ KeysOf(n) = [i \in DOMAIN b |-> b[i].f]
  BY DEF KeysOf
<1>3. \A k : /\ Has(m, k) <=> Found(a, k) # {}
             /\ Has(n, k) <=> Found(b, k) # {}
             /\ Get(m, k) = a[FirstIn(Found(a, k))].s
             /\ Get(n, k) = b[FirstIn(Found(b, k))].s
  BY DEF Has, Get
<1>4. Eq(m, n) <=> /\ Len(a) = Len(b)
                  /\ \A i \in DOMAIN a : a[i].f = b[i].f /\ a[i].s = b[i].s
  BY DEF Eq
<1> HIDE DEF a, b
<1>5. ASSUME Eq(m, n)
      PROVE  /\ KeysOf(m) = KeysOf(n)
             /\ \A k \in Keys : /\ Has(m, k) <=> Has(n, k)
                                /\ Has(m, k) => Get(m, k) = Get(n, k)
  <2>1. DOMAIN a = DOMAIN b /\ \A i \in DOMAIN a : a[i].f = b[i].f /\ a[i].s = b[i].s
    BY <1>1, <1>4, <1>5
  <2>2. KeysOf(m) = KeysOf(n) /\ \A k : Found(a, k) = Found(b, k)
    BY <1>2, <2>1 DEF Found
  <2>3. ASSUME NEW k, Found(a, k) # {}
        PROVE  FirstIn(Found(a, k)) \in DOMAIN a
    BY <1>1, <2>3, FoundIndex
  <2> QED
    BY <1>3, <2>1, <2>2, <2>3
<1>6. ASSUME KeysOf(m) = KeysOf(n),
             \A k \in Keys : /\ Has(m, k) <=> Has(n, k)
                             /\ Has(m, k) => Get(m, k) = Get(n, k)
      PROVE  Eq(m, n)
  <2>1. DOMAIN a = DOMAIN b
    BY <1>2, <1>6
  <2>2. Len(a) = Len(b)
    <3> DEFINE p == Len(a)
               q == Len(b)
    <3>1. p \in Nat /\ q \in Nat /\ 1..p = 1..q
      BY <1>1, <2>1
    <3> HIDE DEF p, q
    <3>2. (p \in 1..p <=> p \in 1..q) /\ (q \in 1..p <=> q \in 1..q)
      BY <3>1
    <3>3. p = q
      BY <3>1, <3>2
    <3> QED
      BY <3>3 DEF p, q
  <2>3. ASSUME NEW i \in DOMAIN a PROVE a[i].f = b[i].f
    BY <1>2, <1>6, <2>1
  <2>4. ASSUME NEW i \in DOMAIN a PROVE a[i].s = b[i].s
    <3>1. PICK k : k = a[i].f
      OBVIOUS
    <3>2. a[i] \in Pairs
      BY <1>1, ElementOfSeq
    <3>3. k \in Keys
      BY <3>1, <3>2 DEF Pairs
    <3>4. FirstIn(Found(a, k)) = i /\ FirstIn(Found(b, k)) = i
      BY <1>1, <2>1, <2>3, <3>1, OnlyFound DEF a, b
    <3>5. Has(m, k)
      BY <1>3, <3>1 DEF Found
    <3>6. Get(m, k) = Get(n, k)
      BY <1>6, <3>3, <3>5
    <3>7. Get(m, k) = a[i].s /\ Get(n, k) = b[i].s
      BY <3>4 DEF Get, a, b
    <3> QED
      BY <3>6, <3>7
  <2> QED
    BY <1>4, <2>2, <2>3, <2>4
<1> QED
  BY <1>5, <1>6

(* Two maps without repeated keys are == exactly when no _get, _has, _keys *)
(* or _values tells them apart.                                            *)
THEOREM EqObservationalHolds ==
  ASSUME ~DuplicateLiterals
  PROVE  Spec => []EqObservational
<1>1. MapInv => EqObservational
  BY EqIsObservational, MapOkHolds DEF EqObservational, MapOk
<1> QED
  BY <1>1, MapInvHolds, PTL

-----------------------------------------------------------------------------
(* The members of a sequence at some places. *)

Below(P, i) == {j \in P : j < i}

LEMMA BelowCount ==
  ASSUME NEW P \in SUBSET Nat, IsFiniteSet(P), NEW i
  PROVE  IsFiniteSet(Below(P, i)) /\ Cardinality(Below(P, i)) \in Nat
<1>1. Below(P, i) \subseteq P
  BY DEF Below
<1> QED
  BY <1>1, FS_Subset, FS_CardinalityType

LEMMA NthIs ==
  ASSUME NEW P \in SUBSET Nat, IsFiniteSet(P), NEW n \in 1..Cardinality(P)
  PROVE  Nth(P, n) \in P /\ Cardinality(Below(P, Nth(P, n))) = n - 1
BY NthMember DEF Nth, Below

(* The smaller of two members is below more of them. *)
LEMMA BelowGrows ==
  ASSUME NEW P \in SUBSET Nat, IsFiniteSet(P), NEW i \in P, NEW j \in P, i < j
  PROVE  Cardinality(Below(P, i)) < Cardinality(Below(P, j))
<1>1. i \notin Below(P, i) /\ Below(P, i) \cup {i} \subseteq Below(P, j)
  <2>1. ASSUME NEW k \in P, k < i PROVE k < j
    BY <2>1
  <2>2. i \in Nat /\ ~ i < i
    OBVIOUS
  <2>3. i \notin Below(P, i)
    BY <2>2 DEF Below
  <2>4. ASSUME NEW k \in Below(P, i) \cup {i} PROVE k \in Below(P, j)
    BY <2>1 DEF Below
  <2> QED
    BY <2>3, <2>4
<1>2. /\ IsFiniteSet(Below(P, i) \cup {i})
      /\ Cardinality(Below(P, i) \cup {i}) = Cardinality(Below(P, i)) + 1
  BY <1>1, BelowCount, FS_AddElement
<1>3. Cardinality(Below(P, i) \cup {i}) <= Cardinality(Below(P, j))
  BY <1>1, BelowCount, FS_Subset
<1> QED
  BY <1>2, <1>3, BelowCount

LEMMA NthIncreases ==
  ASSUME NEW P \in SUBSET Nat, IsFiniteSet(P),
         NEW n \in 1..Cardinality(P), NEW m \in 1..Cardinality(P), n < m
  PROVE  Nth(P, n) < Nth(P, m)
<1> DEFINE i == Nth(P, n)
           j == Nth(P, m)
<1>1. /\ i \in P /\ Cardinality(Below(P, i)) = n - 1
      /\ j \in P /\ Cardinality(Below(P, j)) = m - 1
  BY NthIs
<1> HIDE DEF i, j
<1>2. n \in Int /\ m \in Int /\ i \in Nat /\ j \in Nat
  BY <1>1, FS_CardinalityType
<1>3. ~ j < i
  <2>1. ASSUME j < i PROVE FALSE
    <3>1. m - 1 < n - 1
      BY <1>1, <2>1, BelowGrows
    <3> QED
      BY <1>2, <3>1
  <2> QED
    BY <2>1
<1>4. i # j
  BY <1>1, <1>2
<1>5. i < j
  BY <1>2, <1>3, <1>4
<1> QED
  BY <1>5 DEF i, j

LEMMA NthOnto ==
  ASSUME NEW P \in SUBSET Nat, IsFiniteSet(P), NEW i \in P
  PROVE  \E n \in 1..Cardinality(P) : Nth(P, n) = i
<1> DEFINE n == Cardinality(Below(P, i)) + 1
<1>1. Cardinality(P) \in Nat /\ n \in Nat
  BY BelowCount, FS_CardinalityType
<1>2. n \in 1..Cardinality(P)
  <2>1. i \notin Below(P, i) /\ Below(P, i) \cup {i} \subseteq P
    BY DEF Below
  <2>2. Cardinality(Below(P, i) \cup {i}) = n
    BY <2>1, BelowCount, FS_AddElement
  <2>3. n <= Cardinality(P)
    BY <2>1, <2>2, FS_Subset
  <2> QED
    BY <1>1, <2>3, BelowCount
<1>3. n - 1 = Cardinality(Below(P, i))
  BY BelowCount
<1> HIDE DEF n
<1> DEFINE j == Nth(P, n)
<1>4. j \in P /\ Cardinality(Below(P, j)) = Cardinality(Below(P, i))
  BY <1>2, <1>3, NthIs
<1> HIDE DEF j
<1>5. ~ i < j /\ ~ j < i
  BY <1>4, BelowGrows, BelowCount
<1>6. i = j
  BY <1>4, <1>5
<1> QED
  BY <1>2, <1>6 DEF j

(* Numbers listed in their order are counted by their places. *)
Increasing(g, N) == \A m, n \in 1..N : m < n => g[m] < g[n]
FirstOf(g, n)    == {g[m] : m \in 1..n}
Lists(g, N, P)   == g \in [1..N -> Nat] /\ Increasing(g, N) /\ P = FirstOf(g, N)

LEMMA FirstOfCount ==
  ASSUME NEW N \in Nat, NEW g \in [1..N -> Nat], Increasing(g, N), NEW n \in 0..N
  PROVE  IsFiniteSet(FirstOf(g, n)) /\ Cardinality(FirstOf(g, n)) = n
<1> DEFINE f == [m \in 1..n |-> g[m]]
<1>1. n \in Nat /\ 1..n \subseteq 1..N
  OBVIOUS
<1>2. \A m, k \in 1..n : f[m] = f[k] => m = k
  BY <1>1 DEF Increasing
<1>3. f \in Bijection(1..n, FirstOf(g, n))
  <2>1. f \in [1..n -> FirstOf(g, n)]
    BY DEF FirstOf
  <2>2. \A x \in FirstOf(g, n) : \E m \in 1..n : f[m] = x
    BY DEF FirstOf
  <2> HIDE DEF f
  <2> QED
    BY <1>2, <2>1, <2>2, Fun_IsBij
<1>4. IsFiniteSet(1..n) /\ Cardinality(1..n) = n
  BY <1>1, FS_Interval
<1>5. ExistsBijection(1..n, FirstOf(g, n))
  BY <1>3 DEF ExistsBijection
<1> QED
  BY <1>4, <1>5, FS_Bijection

LEMMA EnumerationIsNth ==
  ASSUME NEW N \in Nat, NEW g, NEW P, Lists(g, N, P)
  PROVE  /\ P \in SUBSET Nat /\ IsFiniteSet(P) /\ Cardinality(P) = N
         /\ \A n \in 1..N : Nth(P, n) = g[n]
<1> g \in [1..N -> Nat] /\ Increasing(g, N) /\ P = FirstOf(g, N)
  BY DEF Lists
<1>1. P \in SUBSET Nat /\ IsFiniteSet(P) /\ Cardinality(P) = N
  <2>1. N \in 0..N
    OBVIOUS
  <2>2. IsFiniteSet(FirstOf(g, N)) /\ Cardinality(FirstOf(g, N)) = N
    BY <2>1, FirstOfCount
  <2>3. FirstOf(g, N) \in SUBSET Nat
    BY DEF FirstOf
  <2> QED
    BY <2>2, <2>3
<1>2. ASSUME NEW n \in 1..N PROVE Nth(P, n) = g[n]
  <2>1. Below(P, g[n]) = FirstOf(g, n - 1)
    <3>1. \A m \in 1..N : g[m] \in Nat /\ (g[m] < g[n] <=> m < n)
      <4>1. ASSUME NEW m \in 1..N PROVE g[m] \in Nat /\ (g[m] < g[n] <=> m < n)
        <5>1. CASE m < n
          BY <5>1 DEF Increasing
        <5>2. CASE m = n
          BY <5>2
        <5>3. CASE n < m
          <6>1. g[n] < g[m] /\ g[n] \in Nat /\ g[m] \in Nat
            BY <5>3 DEF Increasing
          <6> QED
            BY <5>3, <6>1
        <5> QED
          BY <5>1, <5>2, <5>3
      <4> QED
        BY <4>1
    <3>2. 1..n - 1 = {m \in 1..N : m < n}
      OBVIOUS
    <3> QED
      BY <3>1, <3>2 DEF Below, FirstOf
  <2>2. n - 1 \in 0..N
    OBVIOUS
  <2>3. Cardinality(Below(P, g[n])) = n - 1
    BY <2>1, <2>2, FirstOfCount
  <2>4. Nth(P, n) \in P /\ Cardinality(Below(P, Nth(P, n))) = n - 1
    BY <1>1, NthIs
  <2>5. g[n] \in P
    BY DEF FirstOf
  <2>6. ~ Nth(P, n) < g[n] /\ ~ g[n] < Nth(P, n)
    BY <1>1, <2>3, <2>4, <2>5, BelowGrows
  <2> QED
    BY <1>1, <2>4, <2>5, <2>6
<1> QED
  BY <1>1, <1>2

LEMMA ChosenSeq ==
  ASSUME NEW S, NEW s \in Seq(S), NEW P \in SUBSET (1..Len(s))
  PROVE  /\ P \in SUBSET Nat /\ IsFiniteSet(P) /\ Cardinality(P) \in Nat
         /\ Chosen(s, P) \in Seq(S) /\ Len(Chosen(s, P)) = Cardinality(P)
         /\ \A n \in 1..Cardinality(P) : Nth(P, n) \in P /\ Chosen(s, P)[n] = s[Nth(P, n)]
<1>1. Len(s) \in Nat
  BY LenProperties
<1>2. P \in SUBSET Nat /\ IsFiniteSet(P) /\ Cardinality(P) \in Nat
  <2>1. IsFiniteSet(1..Len(s))
    BY <1>1, FS_Interval
  <2>2. P \in SUBSET Nat
    BY <1>1
  <2> QED
    BY <2>1, <2>2, FS_Subset, FS_CardinalityType
<1>3. \A n \in 1..Cardinality(P) : Nth(P, n) \in P /\ s[Nth(P, n)] \in S
  BY <1>2, NthIs, ElementOfSeq
<1>4. Chosen(s, P) \in [1..Cardinality(P) -> S]
  BY <1>3 DEF Chosen
<1>5. Chosen(s, P) \in Seq(S) /\ Len(Chosen(s, P)) = Cardinality(P)
  BY <1>2, <1>4, IsSequence
<1> QED
  BY <1>2, <1>3, <1>5 DEF Chosen

LEMMA ChosenIs ==
  ASSUME NEW S, NEW s \in Seq(S), NEW P \in SUBSET (1..Len(s)),
         NEW N \in Nat, NEW g, Lists(g, N, P)
  PROVE  /\ Chosen(s, P) \in Seq(S) /\ Len(Chosen(s, P)) = N
         /\ \A n \in 1..N : Chosen(s, P)[n] = s[g[n]]
<1>1. Cardinality(P) = N /\ \A n \in 1..N : Nth(P, n) = g[n]
  BY EnumerationIsNth
<1> QED
  BY <1>1, ChosenSeq

(* Places in the tail of a sequence, as places in the sequence itself. *)
Shifted(G)   == {i + 1 : i \in G}
WithFirst(G) == {1} \cup Shifted(G)

LEMMA ChosenOfTail ==
  ASSUME NEW S, NEW s \in Seq(S), s # <<>>, NEW G \in SUBSET (1..Len(s) - 1)
  PROVE  Chosen(s, Shifted(G)) = Chosen(Tail(s), G)
<1> DEFINE F == Shifted(G)
           N == Cardinality(G)
           g == [n \in 1..N |-> Nth(G, n) + 1]
<1>1. /\ Tail(s) \in Seq(S) /\ Len(Tail(s)) = Len(s) - 1 /\ Len(s) \in Nat
      /\ \A i \in 1..Len(s) - 1 : Tail(s)[i] = s[i + 1]
  BY HeadTailProperties, LenProperties
<1>2. /\ G \in SUBSET Nat /\ IsFiniteSet(G) /\ N \in Nat
      /\ Chosen(Tail(s), G) \in Seq(S) /\ Len(Chosen(Tail(s), G)) = N
      /\ \A n \in 1..N : Nth(G, n) \in G /\ Chosen(Tail(s), G)[n] = Tail(s)[Nth(G, n)]
  <2>1. G \in SUBSET (1..Len(Tail(s)))
    BY <1>1
  <2>2. G \in SUBSET Nat
    OBVIOUS
  <2> QED
    BY <1>1, <2>1, <2>2, ChosenSeq
<1>3. g \in [1..N -> Nat] /\ Increasing(g, N)
  <2>1. \A m, n \in 1..N : m < n => Nth(G, m) < Nth(G, n)
    BY <1>2, NthIncreases
  <2>2. \A n \in 1..N : Nth(G, n) \in Nat /\ g[n] = Nth(G, n) + 1
    BY <1>2
  <2>3. \A n \in 1..N : g[n] \in Nat
    BY <2>2
  <2>4. g \in [1..N -> Nat]
    BY <2>3
  <2> HIDE DEF g
  <2> QED
    BY <2>1, <2>2, <2>4 DEF Increasing
<1>4. F = FirstOf(g, N)
  <2>1. \A i \in G : \E n \in 1..N : Nth(G, n) = i
    BY <1>2, NthOnto
  <2>2. ASSUME NEW i \in F PROVE i \in FirstOf(g, N)
    BY <2>1 DEF FirstOf, Shifted
  <2>3. ASSUME NEW i \in FirstOf(g, N) PROVE i \in F
    BY <1>2 DEF FirstOf, Shifted
  <2> QED
    BY <2>2, <2>3
<1>5. F \in SUBSET (1..Len(s))
  <2>1. ASSUME NEW i \in G PROVE i + 1 \in 1..Len(s)
    BY <1>1
  <2> QED
    BY <2>1 DEF Shifted
<1>6. \A n \in 1..N : s[g[n]] = Tail(s)[Nth(G, n)]
  BY <1>1, <1>2
<1> HIDE DEF g, F
<1>7. /\ Chosen(s, F) \in Seq(S) /\ Len(Chosen(s, F)) = N
      /\ \A n \in 1..N : Chosen(s, F)[n] = s[g[n]]
  <2>1. N \in Nat /\ Lists(g, N, F) /\ F \in SUBSET (1..Len(s))
    BY <1>2, <1>3, <1>4, <1>5 DEF Lists
  <2> HIDE DEF N
  <2> QED
    BY <2>1, ChosenIs
<1> DEFINE a == Chosen(s, F)
           b == Chosen(Tail(s), G)
<1>8. a \in Seq(S) /\ b \in Seq(S) /\ Len(a) = N /\ Len(b) = N
  <2> HIDE DEF N
  <2> QED
    BY <1>2, <1>7
<1>10. ASSUME NEW n \in 1..N PROVE a[n] = b[n]
  <2> HIDE DEF N
  <2> QED
    BY <1>2, <1>6, <1>7
<1> HIDE DEF a, b, N
<1>9. a = b
  BY <1>8, <1>10, SeqEqual
<1> QED
  BY <1>9 DEF a, b, F

LEMMA ChosenWithHead ==
  ASSUME NEW S, NEW s \in Seq(S), s # <<>>, NEW G \in SUBSET (1..Len(s) - 1)
  PROVE  LET c == Chosen(s, WithFirst(G)) IN
         /\ c \in Seq(S) /\ Len(c) = Cardinality(G) + 1 /\ c[1] = s[1]
         /\ \A n \in 1..Cardinality(G) : c[n + 1] = Chosen(Tail(s), G)[n]
<1> DEFINE F == WithFirst(G)
           N == Cardinality(G)
           g == [n \in 1..N + 1 |-> IF n = 1 THEN 1 ELSE Nth(G, n - 1) + 1]
<1>1. /\ Tail(s) \in Seq(S) /\ Len(Tail(s)) = Len(s) - 1 /\ Len(s) \in Nat \ {0}
      /\ \A i \in 1..Len(s) - 1 : Tail(s)[i] = s[i + 1]
  BY HeadTailProperties, EmptySeq
<1>2. /\ G \in SUBSET Nat /\ IsFiniteSet(G) /\ N \in Nat
      /\ \A n \in 1..N : Nth(G, n) \in G /\ Chosen(Tail(s), G)[n] = Tail(s)[Nth(G, n)]
  BY <1>1, ChosenSeq
<1>3. /\ \A n \in 1..N + 1 : g[n] = IF n = 1 THEN 1 ELSE Nth(G, n - 1) + 1
      /\ \A n \in 1..N : n + 1 \in 1..N + 1 /\ n + 1 # 1 /\ (n + 1) - 1 = n
      /\ \A n \in 1..N + 1 : n # 1 => n - 1 \in 1..N
      /\ 1 \in 1..N + 1
  BY <1>2
<1>4. \A n \in 1..N : Nth(G, n) \in Nat \ {0}
  <2>1. \A i \in G : i \in Nat \ {0}
    OBVIOUS
  <2> QED
    BY <1>2, <2>1
<1>5. g \in [1..N + 1 -> Nat]
  <2>1. \A n \in 1..N + 1 : (IF n = 1 THEN 1 ELSE Nth(G, n - 1) + 1) \in Nat
    BY <1>3, <1>4
  <2> QED
    BY <2>1
<1> HIDE DEF g
<1>6. Increasing(g, N + 1)
  <2>1. ASSUME NEW m \in 1..N + 1, NEW n \in 1..N + 1, m < n PROVE g[m] < g[n]
    <3>1. n # 1 /\ n - 1 \in 1..N
      BY <1>2, <2>1
    <3>2. CASE m = 1
      BY <1>3, <1>4, <3>1, <3>2
    <3>3. CASE m # 1
      <4>1. m - 1 \in 1..N /\ m - 1 < n - 1
        BY <1>2, <2>1, <3>3
      <4>2. Nth(G, m - 1) < Nth(G, n - 1)
        BY <1>2, <3>1, <4>1, NthIncreases
      <4> QED
        BY <1>3, <1>4, <3>1, <3>3, <4>1, <4>2
    <3> QED
      BY <3>2, <3>3
  <2> QED
    BY <2>1 DEF Increasing
<1>7. F = FirstOf(g, N + 1)
  <2>1. \A i \in G : \E n \in 1..N : Nth(G, n) = i
    BY <1>2, NthOnto
  <2>2. ASSUME NEW i \in F PROVE i \in FirstOf(g, N + 1)
    <3>1. CASE i = 1
      BY <1>3, <3>1 DEF FirstOf
    <3>2. CASE i # 1
      <4>1. PICK n \in 1..N : i = Nth(G, n) + 1
        BY <2>1, <3>2 DEF WithFirst, Shifted
      <4> QED
        BY <1>3, <4>1 DEF FirstOf
    <3> QED
      BY <3>1, <3>2
  <2>3. ASSUME NEW n \in 1..N + 1 PROVE g[n] \in F
    BY <1>2, <1>3 DEF WithFirst, Shifted
  <2> QED
    BY <2>2, <2>3 DEF FirstOf
<1>8. F \in SUBSET (1..Len(s))
  BY <1>1 DEF WithFirst, Shifted
<1> HIDE DEF F
<1>9. /\ Chosen(s, F) \in Seq(S) /\ Len(Chosen(s, F)) = N + 1
      /\ \A n \in 1..N + 1 : Chosen(s, F)[n] = s[g[n]]
  <2> DEFINE M == N + 1
  <2>1. M \in Nat /\ Lists(g, M, F) /\ F \in SUBSET (1..Len(s))
    BY <1>2, <1>5, <1>6, <1>7, <1>8 DEF Lists
  <2> HIDE DEF M, N
  <2>2. /\ Chosen(s, F) \in Seq(S) /\ Len(Chosen(s, F)) = M
        /\ \A n \in 1..M : Chosen(s, F)[n] = s[g[n]]
    BY <2>1, ChosenIs
  <2> QED
    BY <2>2 DEF M
<1>10. ASSUME NEW n \in 1..N PROVE Chosen(s, F)[n + 1] = Chosen(Tail(s), G)[n]
  <2>1. Chosen(s, F)[n + 1] = s[Nth(G, n) + 1]
    BY <1>3, <1>9
  <2>2. Nth(G, n) \in 1..Len(s) - 1
    BY <1>2
  <2> QED
    BY <1>1, <1>2, <2>1, <2>2
<1> QED
  BY <1>3, <1>9, <1>10 DEF F

-----------------------------------------------------------------------------
(* What a list of pairs says of its keys. *)

Keyed(pairs)  == [i \in DOMAIN pairs |-> pairs[i].f]
KeySet(pairs) == {pairs[i].f : i \in DOMAIN pairs}

LEMMA KeyedIs ==
  ASSUME NEW pairs \in Seq(Pairs)
  PROVE  /\ Len(pairs) \in Nat /\ DOMAIN pairs = 1..Len(pairs)
         /\ \A i \in 1..Len(pairs) : /\ pairs[i] \in Pairs
                                     /\ pairs[i].f \in Keys /\ pairs[i].s \in Values
         /\ Keyed(pairs) \in Seq(Keys) /\ Len(Keyed(pairs)) = Len(pairs)
         /\ DOMAIN Keyed(pairs) = 1..Len(pairs)
         /\ \A i \in 1..Len(pairs) : Keyed(pairs)[i] = pairs[i].f
<1>1. Len(pairs) \in Nat /\ DOMAIN pairs = 1..Len(pairs)
  BY LenProperties
<1>2. \A i \in 1..Len(pairs) : pairs[i] \in Pairs
  BY ElementOfSeq
<1>3. \A p \in Pairs : p.f \in Keys /\ p.s \in Values
  BY DEF Pairs
<1>4. \A i \in 1..Len(pairs) : Keyed(pairs)[i] = pairs[i].f
  BY <1>1 DEF Keyed
<1>5. Keyed(pairs) \in [1..Len(pairs) -> Keys]
  BY <1>1, <1>2, <1>3 DEF Keyed
<1> QED
  BY <1>1, <1>2, <1>3, <1>4, <1>5, IsSequence

LEMMA BoundIs ==
  ASSUME NEW pairs \in Seq(Pairs), Distinct(pairs)
  PROVE  /\ DOMAIN Bound(pairs) = KeySet(pairs)
         /\ Bound(pairs) = [k \in KeySet(pairs) |-> Bound(pairs)[k]]
         /\ \A i \in 1..Len(pairs) : Bound(pairs)[pairs[i].f] = pairs[i].s
<1>1. DOMAIN Bound(pairs) = KeySet(pairs) /\ Bound(pairs) = [k \in KeySet(pairs) |-> Bound(pairs)[k]]
  BY DEF Bound, KeySet
<1>2. ASSUME NEW i \in DOMAIN pairs PROVE Bound(pairs)[pairs[i].f] = pairs[i].s
  <2>1. PICK k : k = pairs[i].f
    OBVIOUS
  <2>2. FirstIn(Found(pairs, k)) = i
    BY <2>1, OnlyFound
  <2>3. k \in KeySet(pairs)
    BY <2>1 DEF KeySet
  <2>4. Bound(pairs)[k] = pairs[FirstIn(Found(pairs, k))].s
    BY <2>3 DEF Bound, KeySet
  <2> QED
    BY <2>1, <2>2, <2>4
<1> QED
  BY <1>1, <1>2, KeyedIs

(* The values of its keys determine a function. *)
LEMMA BoundFrom ==
  ASSUME NEW pairs \in Seq(Pairs), Distinct(pairs),
         NEW f, f = [k \in KeySet(pairs) |-> f[k]],
         \A i \in 1..Len(pairs) : f[pairs[i].f] = pairs[i].s
  PROVE  Bound(pairs) = f
<1> DEFINE b == Bound(pairs)
<1>1. b = [k \in KeySet(pairs) |-> b[k]] /\ \A i \in 1..Len(pairs) : b[pairs[i].f] = pairs[i].s
  BY BoundIs
<1> HIDE DEF b
<1>2. ASSUME NEW k \in KeySet(pairs) PROVE b[k] = f[k]
  <2>1. PICK i \in 1..Len(pairs) : pairs[i].f = k
    BY KeyedIs DEF KeySet
  <2> QED
    BY <1>1, <2>1
<1>3. b = f
  BY <1>1, <1>2
<1> QED
  BY <1>3 DEF b

(* The pairs after a _set. *)
LEMMA UpdatedIs ==
  ASSUME NEW pairs \in Seq(Pairs), Distinct(pairs), NEW k \in Keys, NEW v \in Values
  PROVE  LET u == Updated(pairs, k, v) IN
         /\ u \in Seq(Pairs) /\ Distinct(u)
         /\ Len(u) = IF k \in KeySet(pairs) THEN Len(pairs) ELSE Len(pairs) + 1
         /\ \A i \in 1..Len(pairs) :
              u[i] = IF pairs[i].f = k THEN Pair(k, v) ELSE pairs[i]
         /\ k \notin KeySet(pairs) => u[Len(pairs) + 1] = Pair(k, v)
<1> DEFINE u == Updated(pairs, k, v)
<1>1. Len(pairs) \in Nat /\ DOMAIN pairs = 1..Len(pairs) /\ \A i \in 1..Len(pairs) : pairs[i] \in Pairs
  BY KeyedIs
<1>2. k \in KeySet(pairs) <=> Lookup(pairs, k) # {}
  BY DEF KeySet, Lookup, Found
<1>3. CASE Lookup(pairs, k) # {}
  <2> DEFINE n == FirstIn(Found(pairs, k))
             p == [pairs[n] EXCEPT !.s = v]
  <2>1. n \in 1..Len(pairs) /\ pairs[n].f = k
    BY <1>3, FoundIndex DEF Lookup
  <2>2. u = [pairs EXCEPT ![n] = p]
    BY <1>3 DEF Updated, Lookup
  <2> HIDE DEF n
  <2>3. p = Pair(k, v)
    BY <1>1, <2>1 DEF Pairs, Pair
  <2>4. \A i \in 1..Len(pairs) : pairs[i].f = k <=> i = n
    BY <1>1, <2>1 DEF Distinct
  <2>5. \A i \in 1..Len(pairs) : u[i] = IF i = n THEN p ELSE pairs[i]
    <3> HIDE DEF p, u
    <3> QED
      BY <1>1, <2>2
  <2>6. u \in Seq(Pairs) /\ Len(u) = Len(pairs) /\ Distinct(u)
    BY <1>3, UpdatedInPlace
  <2> HIDE DEF u, p
  <2>7. \A i \in 1..Len(pairs) : u[i] = IF pairs[i].f = k THEN Pair(k, v) ELSE pairs[i]
    BY <2>3, <2>4, <2>5
  <2> QED
    BY <1>2, <1>3, <2>6, <2>7 DEF u
<1>4. CASE Lookup(pairs, k) = {}
  <2>1. u = Append(pairs, Pair(k, v))
    BY <1>4 DEF Updated, NewPairs
  <2>2. u \in Seq(Pairs) /\ Len(u) = Len(pairs) + 1 /\ Distinct(u)
    BY <1>4, UpdatedAtEnd
  <2> HIDE DEF u
  <2>3. \A i \in 1..Len(pairs) : u[i] = pairs[i] /\ pairs[i].f # k
    BY <1>1, <1>4, <2>1 DEF Lookup, Found
  <2>4. u[Len(pairs) + 1] = Pair(k, v)
    BY <1>1, <2>1
  <2>5. \A i \in 1..Len(pairs) : u[i] = IF pairs[i].f = k THEN Pair(k, v) ELSE pairs[i]
    BY <2>3
  <2> QED
    BY <1>2, <1>4, <2>2, <2>4, <2>5 DEF u
<1> QED
  BY <1>3, <1>4

LEMMA KeySetUpdated ==
  ASSUME NEW pairs \in Seq(Pairs), Distinct(pairs), NEW k \in Keys, NEW v \in Values
  PROVE  KeySet(Updated(pairs, k, v)) = KeySet(pairs) \cup {k}
<1> DEFINE u == Updated(pairs, k, v)
<1>1. Len(pairs) \in Nat /\ KeySet(pairs) = {pairs[i].f : i \in 1..Len(pairs)}
  BY KeyedIs DEF KeySet
<1>2. /\ u \in Seq(Pairs)
      /\ Len(u) = IF k \in KeySet(pairs) THEN Len(pairs) ELSE Len(pairs) + 1
      /\ \A i \in 1..Len(pairs) : u[i] = IF pairs[i].f = k THEN Pair(k, v) ELSE pairs[i]
      /\ k \notin KeySet(pairs) => u[Len(pairs) + 1] = Pair(k, v)
  BY UpdatedIs
<1> HIDE DEF u
<1>3. KeySet(u) = {u[i].f : i \in 1..Len(u)} /\ Pair(k, v).f = k
  BY <1>2, KeyedIs DEF KeySet, Pair
<1>4. \A i \in 1..Len(pairs) : u[i].f = pairs[i].f /\ i \in 1..Len(u)
  BY <1>1, <1>2, <1>3
<1>5. CASE k \in KeySet(pairs)
  BY <1>1, <1>2, <1>3, <1>4, <1>5 DEF u
<1>6. CASE k \notin KeySet(pairs)
  <2>1. /\ Len(u) = Len(pairs) + 1 /\ u[Len(u)].f = k /\ Len(u) \in 1..Len(u)
        /\ \A i \in 1..Len(u) : i \in 1..Len(pairs) \/ i = Len(u)
    BY <1>1, <1>2, <1>3, <1>6
  <2> QED
    BY <1>1, <1>3, <1>4, <2>1 DEF u
<1> QED
  BY <1>5, <1>6

LEMMA KeyedUpdated ==
  ASSUME NEW pairs \in Seq(Pairs), Distinct(pairs), NEW k \in Keys, NEW v \in Values
  PROVE  Keyed(Updated(pairs, k, v)) =
           IF k \in KeySet(pairs) THEN Keyed(pairs) ELSE Append(Keyed(pairs), k)
<1> DEFINE u == Updated(pairs, k, v)
           e == Keyed(pairs)
           g == Keyed(u)
<1>1. /\ Len(pairs) \in Nat /\ e \in Seq(Keys) /\ Len(e) = Len(pairs)
      /\ \A i \in 1..Len(pairs) : e[i] = pairs[i].f
  BY KeyedIs
<1>2. /\ u \in Seq(Pairs)
      /\ Len(u) = IF k \in KeySet(pairs) THEN Len(pairs) ELSE Len(pairs) + 1
      /\ \A i \in 1..Len(pairs) : u[i] = IF pairs[i].f = k THEN Pair(k, v) ELSE pairs[i]
      /\ k \notin KeySet(pairs) => u[Len(pairs) + 1] = Pair(k, v)
  BY UpdatedIs
<1> HIDE DEF u
<1>3. g \in Seq(Keys) /\ Len(g) = Len(u) /\ \A i \in 1..Len(u) : g[i] = u[i].f
  BY <1>2, KeyedIs
<1>4. Pair(k, v).f = k
  BY DEF Pair
<1> HIDE DEF e, g
<1>5. CASE k \in KeySet(pairs)
  <2>1. \A i \in 1..Len(e) : g[i] = e[i]
    BY <1>1, <1>2, <1>3, <1>4, <1>5
  <2>2. g = e
    BY <1>1, <1>2, <1>3, <1>5, <2>1, SeqEqual
  <2> QED
    BY <1>5, <2>2 DEF g, e, u
<1>6. CASE k \notin KeySet(pairs)
  <2> DEFINE a == Append(e, k)
  <2>1. /\ a \in Seq(Keys) /\ Len(a) = Len(e) + 1
        /\ \A i \in 1..Len(e) : a[i] = e[i]
        /\ a[Len(e) + 1] = k
    BY <1>1, AppendProperties
  <2> HIDE DEF a
  <2>2. \A i \in 1..Len(e) : g[i] = a[i]
    <3>1. ASSUME NEW i \in 1..Len(e) PROVE g[i] = a[i]
      <4>1. i \in 1..Len(u) /\ i \in 1..Len(pairs)
        BY <1>1, <1>2, <1>6
      <4>2. g[i] = u[i].f /\ a[i] = pairs[i].f
        BY <1>1, <1>3, <2>1, <4>1
      <4> QED
        BY <1>2, <1>4, <4>1, <4>2
    <3> QED
      BY <3>1
  <2>3. g[Len(e) + 1] = a[Len(e) + 1]
    BY <1>1, <1>2, <1>3, <1>4, <1>6, <2>1
  <2>4. Len(g) = Len(a) /\ \A i \in 1..Len(g) : g[i] = a[i]
    BY <1>1, <1>2, <1>3, <1>6, <2>1, <2>2, <2>3
  <2>5. g = a
    BY <1>3, <2>1, <2>4, SeqEqual
  <2> QED
    BY <1>6, <2>5 DEF g, a, e, u
<1> QED
  BY <1>5, <1>6

LEMMA BoundUpdated ==
  ASSUME NEW pairs \in Seq(Pairs), Distinct(pairs), NEW k \in Keys, NEW v \in Values
  PROVE  Bound(Updated(pairs, k, v)) =
           [q \in KeySet(pairs) \cup {k} |-> IF q = k THEN v ELSE Bound(pairs)[q]]
<1> DEFINE u == Updated(pairs, k, v)
           b == Bound(pairs)
           f == [q \in KeySet(pairs) \cup {k} |-> IF q = k THEN v ELSE b[q]]
<1>1. Len(pairs) \in Nat /\ \A i \in 1..Len(pairs) : b[pairs[i].f] = pairs[i].s /\ pairs[i].f \in KeySet(pairs)
  BY BoundIs, KeyedIs DEF KeySet
<1>2. /\ u \in Seq(Pairs) /\ Distinct(u)
      /\ Len(u) = IF k \in KeySet(pairs) THEN Len(pairs) ELSE Len(pairs) + 1
      /\ \A i \in 1..Len(pairs) : u[i] = IF pairs[i].f = k THEN Pair(k, v) ELSE pairs[i]
      /\ k \notin KeySet(pairs) => u[Len(pairs) + 1] = Pair(k, v)
  BY UpdatedIs
<1>3. KeySet(u) = KeySet(pairs) \cup {k}
  BY KeySetUpdated
<1>4. Pair(k, v).f = k /\ Pair(k, v).s = v
  BY DEF Pair
<1> HIDE DEF u, b
<1>5. \A q \in KeySet(pairs) \cup {k} : f[q] = IF q = k THEN v ELSE b[q]
  OBVIOUS
<1>6. f = [q \in KeySet(u) |-> f[q]]
  BY <1>3
<1> HIDE DEF f
<1>7. ASSUME NEW i \in 1..Len(u) PROVE f[u[i].f] = u[i].s
  <2>1. CASE i \in 1..Len(pairs)
    BY <1>1, <1>2, <1>4, <1>5, <2>1
  <2>2. CASE i \notin 1..Len(pairs)
    <3>1. u[i] = Pair(k, v)
      BY <1>1, <1>2, <2>2
    <3> QED
      BY <1>4, <1>5, <3>1
  <2> QED
    BY <2>1, <2>2
<1>8. Bound(u) = f
  BY <1>2, <1>6, <1>7, BoundFrom
<1> QED
  BY <1>8 DEF u, f, b

(* The pairs after a _remove. *)
OtherPlaces(keys, k) == {j \in DOMAIN keys : keys[j] # k}

LEMMA KeyedWithout ==
  ASSUME NEW pairs \in Seq(Pairs), Distinct(pairs), NEW i \in 1..Len(pairs)
  PROVE  Keyed(Without(pairs, i)) =
           Chosen(Keyed(pairs), OtherPlaces(Keyed(pairs), pairs[i].f))
<1> DEFINE w == Without(pairs, i)
           e == Keyed(pairs)
           P == OtherPlaces(e, pairs[i].f)
           n == Len(pairs)
           N == n - 1
           g == [j \in 1..N |-> IF j < i THEN j ELSE j + 1]
<1>1. /\ n \in Nat /\ DOMAIN pairs = 1..n
      /\ e \in Seq(Keys) /\ Len(e) = n /\ DOMAIN e = 1..n
      /\ \A j \in 1..n : e[j] = pairs[j].f
  BY KeyedIs
<1>2. /\ w \in Seq(Pairs) /\ Len(w) = N
      /\ \A j \in 1..N : w[j] = pairs[IF j < i THEN j ELSE j + 1]
  BY WithoutPairs
<1>3. i \in 1..n
  OBVIOUS
<1> HIDE DEF w, e, n
<1>4. N \in Nat /\ \A j \in 1..N : g[j] \in 1..n /\ g[j] = IF j < i THEN j ELSE j + 1
  BY <1>1, <1>3
<1>5. \A j \in 1..N : w[j] = pairs[g[j]]
  BY <1>2, <1>4
<1>6. g \in [1..N -> Nat]
  BY <1>1, <1>3
<1>7. \A j \in 1..n : j # i => \E m \in 1..N : g[m] = j
  <2>1. ASSUME NEW j \in 1..n, j # i PROVE \E m \in 1..N : g[m] = j
    <3>1. CASE j < i
      <4>1. j \in 1..N
        BY <1>1, <1>3, <3>1
      <4> QED
        BY <3>1, <4>1, <1>4
    <3>2. CASE ~ j < i
      <4>1. j - 1 \in 1..N /\ ~ j - 1 < i /\ (j - 1) + 1 = j
        BY <1>1, <1>3, <2>1, <3>2
      <4>2. g[j - 1] = j
        BY <1>4, <4>1
      <4> QED
        BY <4>1, <4>2
    <3> QED
      BY <3>1, <3>2
  <2> QED
    BY <2>1
<1>8. \A j, m \in 1..N : j < m => g[j] < g[m]
  BY <1>1, <1>3
<1>9. \A j \in 1..N : g[j] # i
  BY <1>1, <1>3
<1> HIDE DEF g, N
<1>10. Lists(g, N, P)
  <2>1. P = {j \in 1..n : j # i}
    <3>1. \A j \in 1..n : e[j] # pairs[i].f <=> j # i
      BY <1>1, <1>3 DEF Distinct
    <3> QED
      BY <1>1, <3>1 DEF OtherPlaces
  <2>2. P = FirstOf(g, N)
    BY <1>4, <1>7, <1>9, <2>1 DEF FirstOf
  <2> QED
    BY <1>6, <1>8, <2>2 DEF Lists, Increasing
<1>11. P \in SUBSET (1..Len(e))
  BY <1>1 DEF OtherPlaces
<1> HIDE DEF P
<1> DEFINE c == Chosen(e, P)
<1>12. c \in Seq(Keys) /\ Len(c) = N /\ \A j \in 1..N : c[j] = e[g[j]]
  BY <1>1, <1>4, <1>10, <1>11, ChosenIs
<1> DEFINE h == Keyed(w)
<1>13. h \in Seq(Keys) /\ Len(h) = N /\ \A j \in 1..N : h[j] = w[j].f
  BY <1>2, KeyedIs
<1> HIDE DEF c, h
<1>14. \A j \in 1..N : h[j] = c[j]
  <2>1. ASSUME NEW j \in 1..N PROVE h[j] = c[j]
    <3>1. g[j] \in 1..n /\ w[j] = pairs[g[j]]
      BY <1>4, <1>5
    <3>2. h[j] = w[j].f /\ c[j] = e[g[j]]
      BY <1>12, <1>13
    <3> QED
      BY <1>1, <3>1, <3>2
  <2> QED
    BY <2>1
<1>15. h = c
  BY <1>12, <1>13, <1>14, SeqEqual
<1> QED
  BY <1>15 DEF h, c, P, w, e

LEMMA BoundWithout ==
  ASSUME NEW pairs \in Seq(Pairs), Distinct(pairs), NEW i \in 1..Len(pairs)
  PROVE  Bound(Without(pairs, i)) =
           [q \in KeySet(pairs) \ {pairs[i].f} |-> Bound(pairs)[q]]
<1> DEFINE w == Without(pairs, i)
           b == Bound(pairs)
           at(j) == IF j < i THEN j ELSE j + 1
           f == [q \in KeySet(pairs) \ {pairs[i].f} |-> b[q]]
<1>1. /\ Len(pairs) \in Nat /\ DOMAIN pairs = 1..Len(pairs)
      /\ \A j \in 1..Len(pairs) : b[pairs[j].f] = pairs[j].s
  BY BoundIs, KeyedIs
<1>2. /\ w \in Seq(Pairs) /\ Len(w) = Len(pairs) - 1 /\ Distinct(w)
      /\ \A j \in 1..Len(pairs) - 1 : w[j] = pairs[at(j)]
  BY WithoutPairs
<1> HIDE DEF w, b
<1>3. DOMAIN w = 1..Len(pairs) - 1
  BY <1>2, KeyedIs
<1>4. \A j \in 1..Len(pairs) - 1 : at(j) \in 1..Len(pairs) /\ at(j) # i
  BY <1>1
<1>5. \A j \in 1..Len(pairs) : j # i => \E m \in 1..Len(pairs) - 1 : at(m) = j
  <2>1. ASSUME NEW j \in 1..Len(pairs), j # i
        PROVE  \E m \in 1..Len(pairs) - 1 : at(m) = j
    <3>1. CASE j < i
      <4>1. j \in 1..Len(pairs) - 1
        BY <1>1, <3>1
      <4> QED
        BY <3>1, <4>1
    <3>2. CASE ~ j < i
      <4>1. j - 1 \in 1..Len(pairs) - 1 /\ ~ j - 1 < i /\ (j - 1) + 1 = j
        BY <1>1, <2>1, <3>2
      <4> QED
        BY <4>1
    <3> QED
      BY <3>1, <3>2
  <2> QED
    BY <2>1
<1> HIDE DEF at
<1>6. \A j \in 1..Len(pairs) : pairs[j].f = pairs[i].f <=> j = i
  BY <1>1 DEF Distinct
<1>7. KeySet(w) = KeySet(pairs) \ {pairs[i].f}
  <2>1. ASSUME NEW q \in KeySet(w) PROVE q \in KeySet(pairs) \ {pairs[i].f}
    <3>1. PICK j \in 1..Len(pairs) - 1 : q = w[j].f
      BY <1>3 DEF KeySet
    <3>2. q = pairs[at(j)].f /\ at(j) \in 1..Len(pairs) /\ at(j) # i
      BY <1>2, <1>4, <3>1
    <3> QED
      BY <1>1, <1>6, <3>2 DEF KeySet
  <2>2. ASSUME NEW q \in KeySet(pairs) \ {pairs[i].f} PROVE q \in KeySet(w)
    <3>1. PICK j \in 1..Len(pairs) : q = pairs[j].f
      BY <1>1 DEF KeySet
    <3>2. PICK m \in 1..Len(pairs) - 1 : at(m) = j
      BY <1>5, <3>1
    <3> QED
      BY <1>2, <1>3, <3>1, <3>2 DEF KeySet
  <2> QED
    BY <2>1, <2>2
<1>8. \A q \in KeySet(w) : f[q] = b[q]
  BY <1>7
<1>9. f = [q \in KeySet(w) |-> f[q]]
  BY <1>7
<1> HIDE DEF f
<1>10. ASSUME NEW j \in 1..Len(w) PROVE f[w[j].f] = w[j].s
  <2>1. w[j].f \in KeySet(w)
    BY <1>2, <1>3 DEF KeySet
  <2> QED
    BY <1>1, <1>2, <1>4, <1>8, <2>1
<1>11. Bound(w) = f
  BY <1>2, <1>9, <1>10, BoundFrom
<1> QED
  BY <1>11 DEF w, f, b

(* The pairs that a _merge leaves. *)
LEMMA NewIs ==
  ASSUME NEW pairs \in Seq(Pairs), NEW more \in Seq(Pairs)
  PROVE  /\ New(pairs, more) = {i \in 1..Len(more) : more[i].f \notin KeySet(pairs)}
         /\ New(pairs, more) \in SUBSET (1..Len(more))
<1>1. DOMAIN more = 1..Len(more)
  BY KeyedIs
<1>2. \A k : Found(pairs, k) = {} <=> k \notin KeySet(pairs)
  BY DEF Found, KeySet
<1> QED
  BY <1>1, <1>2 DEF New

LEMMA OverwrittenIs ==
  ASSUME NEW pairs \in Seq(Pairs), NEW more \in Seq(Pairs), Distinct(more)
  PROVE  LET o == Overwritten(pairs, more) IN
         /\ o \in Seq(Pairs) /\ Len(o) = Len(pairs)
         /\ \A i \in 1..Len(pairs) :
              o[i] = IF pairs[i].f \in KeySet(more)
                     THEN Pair(pairs[i].f, Bound(more)[pairs[i].f]) ELSE pairs[i]
<1> DEFINE o == Overwritten(pairs, more)
           q(k) == more[FirstIn(Found(more, k))]
<1>1. /\ Len(pairs) \in Nat /\ DOMAIN pairs = 1..Len(pairs)
      /\ \A i \in 1..Len(pairs) : pairs[i] \in Pairs
  BY KeyedIs
<1>2. DOMAIN more = 1..Len(more) /\ \A i \in 1..Len(more) : more[i] \in Pairs
  BY KeyedIs
<1>3. ASSUME NEW k \in KeySet(more) PROVE q(k) \in Pairs /\ q(k) = Pair(k, Bound(more)[k])
  <2>1. Found(more, k) # {}
    BY DEF KeySet, Found
  <2>2. FirstIn(Found(more, k)) \in 1..Len(more) /\ q(k).f = k
    BY <2>1, FoundIndex
  <2>3. q(k) \in Pairs
    BY <1>2, <2>2
  <2>4. Bound(more)[k] = q(k).s
    BY DEF Bound, KeySet
  <2> HIDE DEF q
  <2>5. q(k) = Pair(k, Bound(more)[k])
    BY <2>2, <2>3, <2>4 DEF Pairs, Pair
  <2> QED
    BY <2>3, <2>5
<1>4. \A k : Found(more, k) = {} <=> k \notin KeySet(more)
  BY DEF Found, KeySet
<1>5. o = [i \in 1..Len(pairs) |-> IF Found(more, pairs[i].f) = {} THEN pairs[i] ELSE q(pairs[i].f)]
  BY <1>1 DEF Overwritten
<1> HIDE DEF o, q
<1>6. \A i \in 1..Len(pairs) :
        /\ o[i] \in Pairs
        /\ o[i] = IF pairs[i].f \in KeySet(more)
                  THEN Pair(pairs[i].f, Bound(more)[pairs[i].f]) ELSE pairs[i]
  BY <1>1, <1>3, <1>4, <1>5
<1>7. o \in [1..Len(pairs) -> Pairs]
  BY <1>5, <1>6
<1>8. o \in Seq(Pairs) /\ Len(o) = Len(pairs)
  BY <1>1, <1>7, IsSequence
<1> QED
  BY <1>6, <1>8 DEF o

LEMMA MergedIs ==
  ASSUME NEW pairs \in Seq(Pairs), NEW more \in Seq(Pairs), Distinct(more)
  PROVE  LET m == Merged(pairs, more)
             N == Cardinality(New(pairs, more)) IN
         /\ N \in Nat /\ m \in Seq(Pairs) /\ Len(m) = Len(pairs) + N
         /\ \A i \in 1..Len(pairs) :
              m[i] = IF pairs[i].f \in KeySet(more)
                     THEN Pair(pairs[i].f, Bound(more)[pairs[i].f]) ELSE pairs[i]
         /\ \A n \in 1..N : /\ Nth(New(pairs, more), n) \in New(pairs, more)
                            /\ m[Len(pairs) + n] = more[Nth(New(pairs, more), n)]
<1> DEFINE o == Overwritten(pairs, more)
           P == New(pairs, more)
           N == Cardinality(P)
           c == Chosen(more, P)
           m == o \o c
<1>1. /\ o \in Seq(Pairs) /\ Len(o) = Len(pairs) /\ Len(pairs) \in Nat
      /\ \A i \in 1..Len(pairs) :
           o[i] = IF pairs[i].f \in KeySet(more)
                  THEN Pair(pairs[i].f, Bound(more)[pairs[i].f]) ELSE pairs[i]
  BY OverwrittenIs, KeyedIs
<1>2. P \in SUBSET (1..Len(more))
  BY NewIs
<1> HIDE DEF P, o
<1>3. /\ N \in Nat /\ c \in Seq(Pairs) /\ Len(c) = N
      /\ \A n \in 1..N : Nth(P, n) \in P /\ c[n] = more[Nth(P, n)]
  BY <1>2, ChosenSeq
<1> HIDE DEF N, c
<1>4. /\ m \in Seq(Pairs) /\ Len(m) = Len(o) + Len(c)
      /\ \A i \in 1..Len(o) + Len(c) : m[i] = IF i <= Len(o) THEN o[i] ELSE c[i - Len(o)]
  BY <1>1, <1>3, ConcatProperties
<1>5. m = Merged(pairs, more)
  BY DEF Merged, o, c, P
<1> HIDE DEF m
<1>6. \A i \in 1..Len(pairs) : m[i] = o[i]
  BY <1>1, <1>3, <1>4
<1>7. \A n \in 1..N : m[Len(pairs) + n] = c[n]
  <2>1. ASSUME NEW n \in 1..N PROVE m[Len(pairs) + n] = c[n]
    <3>1. Len(pairs) + n \in 1..Len(o) + Len(c) /\ ~ Len(pairs) + n <= Len(o) /\ (Len(pairs) + n) - Len(o) = n
      BY <1>1, <1>3
    <3> QED
      BY <1>4, <3>1
  <2> QED
    BY <2>1
<1>8. /\ N \in Nat /\ m \in Seq(Pairs) /\ Len(m) = Len(pairs) + N
      /\ \A i \in 1..Len(pairs) :
           m[i] = IF pairs[i].f \in KeySet(more)
                  THEN Pair(pairs[i].f, Bound(more)[pairs[i].f]) ELSE pairs[i]
      /\ \A n \in 1..N : Nth(P, n) \in P /\ m[Len(pairs) + n] = more[Nth(P, n)]
  BY <1>1, <1>3, <1>4, <1>6, <1>7
<1> QED
  BY <1>5, <1>8 DEF N, P

(* Every key of a merge is a key of one of both, and once.  The places of  *)
(* the new pairs are Nth of New.                                           *)
LEMMA MergedKeys ==
  ASSUME NEW pairs \in Seq(Pairs), Distinct(pairs),
         NEW more \in Seq(Pairs), Distinct(more)
  PROVE  LET m == Merged(pairs, more) IN
         /\ Distinct(m)
         /\ KeySet(m) = KeySet(pairs) \cup KeySet(more)
         /\ \A i \in 1..Len(m) :
              m[i].s = IF m[i].f \in KeySet(more) THEN Bound(more)[m[i].f]
                                                  ELSE Bound(pairs)[m[i].f]
<1> DEFINE m == Merged(pairs, more)
           P == New(pairs, more)
           N == Cardinality(P)
           l == Len(pairs)
           b == Bound(more)
<1>1. /\ l \in Nat /\ DOMAIN pairs = 1..l
      /\ \A i \in 1..l : /\ pairs[i].f \in KeySet(pairs)
                         /\ Bound(pairs)[pairs[i].f] = pairs[i].s
  BY KeyedIs, BoundIs DEF KeySet
<1>2. /\ DOMAIN more = 1..Len(more)
      /\ \A i \in 1..Len(more) : more[i].f \in KeySet(more) /\ b[more[i].f] = more[i].s
  BY KeyedIs, BoundIs DEF KeySet
<1>3. /\ P = {i \in 1..Len(more) : more[i].f \notin KeySet(pairs)}
      /\ P \in SUBSET Nat /\ IsFiniteSet(P)
  <2>1. P \in SUBSET (1..Len(more))
    BY NewIs
  <2> QED
    BY <2>1, NewIs, ChosenSeq
<1>4. /\ N \in Nat /\ m \in Seq(Pairs) /\ Len(m) = l + N
      /\ \A i \in 1..l :
           m[i] = IF pairs[i].f \in KeySet(more)
                  THEN Pair(pairs[i].f, b[pairs[i].f]) ELSE pairs[i]
      /\ \A n \in 1..N : Nth(P, n) \in P /\ m[l + n] = more[Nth(P, n)]
  BY MergedIs
<1>5. \A n, j \in 1..N : Nth(P, n) = Nth(P, j) => n = j
  <2>1. ASSUME NEW n \in 1..N, NEW j \in 1..N, Nth(P, n) = Nth(P, j) PROVE n = j
    <3>1. Cardinality(Below(P, Nth(P, n))) = n - 1 /\ Cardinality(Below(P, Nth(P, j))) = j - 1
      BY <1>3, NthIs
    <3>2. n - 1 = j - 1
      BY <2>1, <3>1
    <3> QED
      BY <3>2
  <2> QED
    BY <2>1
<1>6. \A j \in P : \E n \in 1..N : Nth(P, n) = j
  BY <1>3, NthOnto
<1>7. \A k, v : Pair(k, v).f = k /\ Pair(k, v).s = v
  BY DEF Pair
<1> HIDE DEF m, P, N, l, b
<1>8. DOMAIN m = 1..l + N
  BY <1>4, KeyedIs
<1>9. \A i \in 1..l : /\ m[i].f = pairs[i].f
                      /\ m[i].s = IF m[i].f \in KeySet(more) THEN b[m[i].f] ELSE pairs[i].s
  BY <1>4, <1>7
<1>10. ASSUME NEW n \in 1..N
       PROVE  /\ m[l + n].f \notin KeySet(pairs) /\ m[l + n].f \in KeySet(more)
              /\ m[l + n].s = b[m[l + n].f]
  <2>1. PICK j \in P : m[l + n] = more[j]
    BY <1>4
  <2>2. j \in 1..Len(more) /\ more[j].f \notin KeySet(pairs)
    BY <1>3
  <2> QED
    BY <1>2, <2>1, <2>2
<1>11. ASSUME NEW i \in 1..l + N PROVE i \in 1..l \/ \E n \in 1..N : i = l + n
  <2>1. CASE i \in 1..l
    BY <2>1
  <2>2. CASE i \notin 1..l
    <3>1. i - l \in 1..N /\ i = l + (i - l)
      BY <1>1, <1>4, <2>2
    <3> QED
      BY <3>1
  <2> QED
    BY <2>1, <2>2
<1>12. Distinct(m)
  <2>1. ASSUME NEW i \in 1..l, NEW j \in 1..l, m[i].f = m[j].f PROVE i = j
    BY <1>1, <1>9, <2>1 DEF Distinct
  <2>2. ASSUME NEW i \in 1..l, NEW n \in 1..N PROVE m[i].f # m[l + n].f
    BY <1>1, <1>9, <1>10
  <2>3. ASSUME NEW n \in 1..N, NEW j \in 1..N, m[l + n].f = m[l + j].f PROVE n = j
    <3>1. more[Nth(P, n)].f = more[Nth(P, j)].f /\ Nth(P, n) \in 1..Len(more) /\ Nth(P, j) \in 1..Len(more)
      BY <1>3, <1>4, <2>3
    <3> QED
      BY <1>2, <1>5, <3>1 DEF Distinct
  <2>4. ASSUME NEW i \in 1..l + N, NEW j \in 1..l + N, m[i].f = m[j].f PROVE i = j
    BY <1>11, <2>1, <2>2, <2>3, <2>4
  <2> QED
    BY <1>8, <2>4 DEF Distinct
<1>13. KeySet(m) = KeySet(pairs) \cup KeySet(more)
  <2>1. ASSUME NEW i \in 1..l + N PROVE m[i].f \in KeySet(pairs) \cup KeySet(more)
    BY <1>1, <1>9, <1>10, <1>11
  <2>2. ASSUME NEW i \in 1..l PROVE pairs[i].f \in KeySet(m)
    <3>1. i \in 1..l + N
      BY <1>1, <1>4
    <3>2. m[i].f \in KeySet(m)
      BY <1>8, <3>1 DEF KeySet
    <3> QED
      BY <1>9, <3>2
  <2>3. ASSUME NEW j \in 1..Len(more), more[j].f \notin KeySet(pairs) PROVE more[j].f \in KeySet(m)
    <3>1. PICK n \in 1..N : Nth(P, n) = j
      BY <1>3, <1>6, <2>3
    <3>2. l + n \in 1..l + N
      <4> HIDE DEF l, N
      <4> QED
        BY <1>1, <1>4
    <3>3. m[l + n].f = more[j].f
      <4> HIDE DEF l, N, m, P
      <4> QED
        BY <1>4, <3>1
    <3> QED
      BY <1>8, <3>2, <3>3 DEF KeySet
  <2>4. ASSUME NEW k \in KeySet(m) PROVE k \in KeySet(pairs) \cup KeySet(more)
    BY <1>8, <2>1 DEF KeySet
  <2>5. ASSUME NEW k \in KeySet(pairs) PROVE k \in KeySet(m)
    BY <1>1, <2>2 DEF KeySet
  <2>6. ASSUME NEW k \in KeySet(more), k \notin KeySet(pairs) PROVE k \in KeySet(m)
    <3>1. PICK j \in 1..Len(more) : more[j].f = k
      BY <1>2 DEF KeySet
    <3> QED
      BY <2>3, <2>6, <3>1
  <2> QED
    BY <2>4, <2>5, <2>6
<1>14. ASSUME NEW i \in 1..l + N
       PROVE  m[i].s = IF m[i].f \in KeySet(more) THEN b[m[i].f] ELSE Bound(pairs)[m[i].f]
  <2>1. CASE i \in 1..l
    BY <1>1, <1>9, <2>1
  <2>2. CASE i \notin 1..l
    BY <1>10, <1>11, <2>2
  <2> QED
    BY <2>1, <2>2
<1> QED
  BY <1>4, <1>12, <1>13, <1>14 DEF m, b

LEMMA BoundMerged ==
  ASSUME NEW pairs \in Seq(Pairs), Distinct(pairs),
         NEW more \in Seq(Pairs), Distinct(more)
  PROVE  Bound(Merged(pairs, more)) =
           [k \in KeySet(pairs) \cup KeySet(more) |->
              IF k \in KeySet(more) THEN Bound(more)[k] ELSE Bound(pairs)[k]]
<1> DEFINE m == Merged(pairs, more)
           b == Bound(pairs)
           c == Bound(more)
           f == [k \in KeySet(pairs) \cup KeySet(more) |-> IF k \in KeySet(more) THEN c[k] ELSE b[k]]
<1>1. /\ m \in Seq(Pairs) /\ Distinct(m)
      /\ KeySet(m) = KeySet(pairs) \cup KeySet(more)
      /\ \A i \in 1..Len(m) : m[i].s = IF m[i].f \in KeySet(more) THEN c[m[i].f] ELSE b[m[i].f]
  <2>1. m \in Seq(Pairs)
    BY MergedIs
  <2> QED
    BY <2>1, MergedKeys
<1> HIDE DEF m, b, c
<1>2. \A k \in KeySet(m) : f[k] = IF k \in KeySet(more) THEN c[k] ELSE b[k]
  BY <1>1
<1>3. f = [k \in KeySet(m) |-> f[k]]
  BY <1>1
<1>4. \A i \in 1..Len(m) : m[i].f \in KeySet(m)
  BY <1>1, KeyedIs DEF KeySet
<1> HIDE DEF f
<1>5. \A i \in 1..Len(m) : f[m[i].f] = m[i].s
  BY <1>1, <1>2, <1>4
<1>6. m \in Seq(Pairs) /\ Distinct(m)
  BY <1>1
<1>7. Bound(m) = f
  BY <1>3, <1>5, <1>6, BoundFrom
<1> QED
  BY <1>7 DEF m, f, b, c

(* The keys that are new, in their order, behind the others. *)
NewPlaces(keys, S) == {i \in DOMAIN keys : keys[i] \notin S}

LEMMA KeyedMerged ==
  ASSUME NEW pairs \in Seq(Pairs), NEW more \in Seq(Pairs), Distinct(more)
  PROVE  Keyed(Merged(pairs, more)) =
           Keyed(pairs) \o Chosen(Keyed(more), NewPlaces(Keyed(more), KeySet(pairs)))
<1> DEFINE m == Merged(pairs, more)
           P == New(pairs, more)
           N == Cardinality(P)
           l == Len(pairs)
           e == Keyed(pairs)
           d == Keyed(more)
           c == Chosen(d, P)
           h == Keyed(m)
           g == e \o c
<1>1. l \in Nat /\ e \in Seq(Keys) /\ Len(e) = l /\ \A i \in 1..l : e[i] = pairs[i].f
  BY KeyedIs
<1>2. /\ d \in Seq(Keys) /\ Len(d) = Len(more) /\ DOMAIN d = 1..Len(more)
      /\ \A i \in 1..Len(more) : d[i] = more[i].f
  BY KeyedIs
<1>3. P \in SUBSET (1..Len(more)) /\ P = NewPlaces(d, KeySet(pairs))
  <2>1. P = {i \in 1..Len(more) : more[i].f \notin KeySet(pairs)} /\ P \in SUBSET (1..Len(more))
    BY NewIs
  <2> HIDE DEF P, d
  <2> QED
    BY <1>2, <2>1 DEF NewPlaces
<1>4. /\ N \in Nat /\ m \in Seq(Pairs) /\ Len(m) = l + N
      /\ \A i \in 1..l :
           m[i] = IF pairs[i].f \in KeySet(more)
                  THEN Pair(pairs[i].f, Bound(more)[pairs[i].f]) ELSE pairs[i]
      /\ \A n \in 1..N : Nth(P, n) \in P /\ m[l + n] = more[Nth(P, n)]
  BY MergedIs
<1>5. \A k, v : Pair(k, v).f = k
  BY DEF Pair
<1> HIDE DEF m, P, l, e, d
<1>6. c \in Seq(Keys) /\ Len(c) = N /\ \A n \in 1..N : c[n] = d[Nth(P, n)]
  BY <1>2, <1>3, ChosenSeq
<1> HIDE DEF N, c
<1>7. h \in Seq(Keys) /\ Len(h) = l + N /\ \A i \in 1..l + N : h[i] = m[i].f
  BY <1>4, KeyedIs
<1>8. /\ g \in Seq(Keys) /\ Len(g) = Len(e) + Len(c)
      /\ \A i \in 1..Len(e) + Len(c) : g[i] = IF i <= Len(e) THEN e[i] ELSE c[i - Len(e)]
  BY <1>1, <1>6, ConcatProperties
<1> HIDE DEF h, g
<1>9. ASSUME NEW i \in 1..l + N PROVE h[i] = g[i]
  <2>1. CASE i \in 1..l
    <3>1. m[i].f = pairs[i].f
      BY <1>4, <1>5, <2>1
    <3>2. g[i] = e[i] /\ h[i] = m[i].f
      BY <1>1, <1>4, <1>6, <1>7, <1>8, <2>1
    <3> QED
      BY <1>1, <2>1, <3>1, <3>2
  <2>2. CASE i \notin 1..l
    <3> DEFINE n == i - l
    <3>1. n \in 1..N /\ i = l + n /\ ~ i <= l
      BY <1>1, <1>4, <2>2
    <3>2. g[i] = c[n]
      BY <1>1, <1>6, <1>8, <3>1
    <3>3. h[i] = m[i].f
      BY <1>7
    <3> HIDE DEF n
    <3>4. m[i] = more[Nth(P, n)] /\ Nth(P, n) \in 1..Len(more)
      BY <1>3, <1>4, <3>1
    <3> QED
      BY <1>2, <1>6, <3>1, <3>2, <3>3, <3>4
  <2> QED
    BY <2>1, <2>2
<1>10. Len(h) = Len(g)
  BY <1>1, <1>6, <1>7, <1>8
<1>11. h = g
  BY <1>7, <1>8, <1>9, <1>10, SeqEqual
<1> QED
  BY <1>3, <1>11 DEF h, g, c, d, e, m

LEMMA MergedNone ==
  ASSUME NEW pairs \in Seq(Pairs)
  PROVE  Merged(pairs, <<>>) = pairs
<1>1. PICK none \in Seq(Pairs) : none = <<>>
  BY EmptySeq
<1>2. DOMAIN none = {} /\ Len(none) = 0
  BY <1>1, EmptySeq
<1>3. Distinct(none) /\ KeySet(none) = {}
  BY <1>2 DEF Distinct, KeySet
<1> DEFINE m == Merged(pairs, none)
           N == Cardinality(New(pairs, none))
<1>4. N = 0
  <2>1. New(pairs, none) = {}
    BY <1>2 DEF New
  <2> QED
    BY <2>1, FS_EmptySet
<1>5. /\ m \in Seq(Pairs) /\ Len(m) = Len(pairs) + N
      /\ \A i \in 1..Len(pairs) : m[i] = pairs[i]
  <2>1. /\ m \in Seq(Pairs) /\ Len(m) = Len(pairs) + N
        /\ \A i \in 1..Len(pairs) :
             m[i] = IF pairs[i].f \in KeySet(none)
                    THEN Pair(pairs[i].f, Bound(none)[pairs[i].f]) ELSE pairs[i]
    BY <1>3, MergedIs
  <2> HIDE DEF m, N
  <2> QED
    BY <1>3, <2>1
<1> HIDE DEF m, N
<1>6. Len(m) = Len(pairs)
  BY <1>4, <1>5, KeyedIs
<1>7. m = pairs
  BY <1>5, <1>6, SeqEqual
<1> QED
  BY <1>1, <1>7 DEF m

(* The first pair and the others. *)
LEMMA TailKeys ==
  ASSUME NEW more \in Seq(Pairs), more # <<>>, Distinct(more)
  PROVE  LET h == Head(more)
             t == Tail(more) IN
         /\ h = more[1] /\ h \in Pairs /\ h.f \in Keys /\ h.s \in Values
         /\ h = Pair(h.f, h.s)
         /\ t \in Seq(Pairs) /\ Distinct(t)
         /\ Len(more) \in Nat \ {0} /\ Len(t) = Len(more) - 1
         /\ \A i \in 1..Len(t) : i + 1 \in 1..Len(more) /\ t[i] = more[i + 1]
         /\ h.f \notin KeySet(t) /\ KeySet(more) = KeySet(t) \cup {h.f}
         /\ Bound(more)[h.f] = h.s
         /\ \A k \in KeySet(t) : Bound(more)[k] = Bound(t)[k]
<1> DEFINE h == Head(more)
           t == Tail(more)
<1>1. /\ h \in Pairs /\ t \in Seq(Pairs) /\ Len(t) = Len(more) - 1
      /\ \A i \in 1..Len(t) : t[i] = more[i + 1]
  BY HeadTailProperties
<1>2. Distinct(t)
  BY TailDistinct
<1>3. Len(more) \in Nat \ {0} /\ DOMAIN more = 1..Len(more)
  BY EmptySeq, LenProperties
<1>4. h = more[1]
  OBVIOUS
<1> HIDE DEF h, t
<1>5. h.f \in Keys /\ h.s \in Values /\ h = Pair(h.f, h.s)
  BY <1>1 DEF Pairs, Pair
<1>6. DOMAIN t = 1..Len(t) /\ \A i \in 1..Len(t) : i + 1 \in 1..Len(more)
  BY <1>1, <1>3, KeyedIs
<1>7. h.f \notin KeySet(t)
  <2>1. ASSUME NEW i \in 1..Len(t), t[i].f = h.f PROVE FALSE
    <3>1. 1 \in DOMAIN more /\ i + 1 \in DOMAIN more /\ more[i + 1].f = more[1].f
      BY <1>1, <1>3, <1>4, <1>6, <2>1
    <3>2. i + 1 = 1
      BY <3>1 DEF Distinct
    <3> QED
      BY <1>1, <1>3, <3>2
  <2> QED
    BY <1>6, <2>1 DEF KeySet
<1>8. KeySet(more) = KeySet(t) \cup {h.f}
  <2>1. ASSUME NEW i \in 1..Len(more) PROVE more[i].f \in KeySet(t) \cup {h.f}
    <3>1. CASE i = 1
      BY <1>4, <3>1
    <3>2. CASE i # 1
      <4>1. i - 1 \in 1..Len(t) /\ (i - 1) + 1 = i
        BY <1>1, <1>3, <3>2
      <4>2. t[i - 1] = more[i]
        BY <1>1, <4>1
      <4> QED
        BY <1>6, <4>1, <4>2 DEF KeySet
    <3> QED
      BY <3>1, <3>2
  <2>2. ASSUME NEW i \in 1..Len(t) PROVE t[i].f \in KeySet(more)
    BY <1>1, <1>3, <1>6 DEF KeySet
  <2>3. h.f \in KeySet(more)
    BY <1>3, <1>4 DEF KeySet
  <2>4. ASSUME NEW k \in KeySet(more) PROVE k \in KeySet(t) \cup {h.f}
    BY <1>3, <2>1 DEF KeySet
  <2>5. ASSUME NEW k \in KeySet(t) PROVE k \in KeySet(more)
    BY <1>6, <2>2 DEF KeySet
  <2> QED
    BY <2>3, <2>4, <2>5
<1>9. Bound(more)[h.f] = h.s
  BY <1>3, <1>4, BoundIs
<1>10. ASSUME NEW k \in KeySet(t) PROVE Bound(more)[k] = Bound(t)[k]
  <2>1. PICK i \in 1..Len(t) : k = t[i].f
    BY <1>6 DEF KeySet
  <2>2. Bound(t)[k] = t[i].s
    BY <1>1, <1>2, <2>1, BoundIs
  <2>3. i + 1 \in 1..Len(more) /\ more[i + 1] = t[i]
    BY <1>1, <1>6
  <2>4. Bound(more)[more[i + 1].f] = more[i + 1].s
    BY <2>3, BoundIs
  <2> QED
    BY <2>1, <2>2, <2>3, <2>4
<1>11. \A i \in 1..Len(t) : i + 1 \in 1..Len(more) /\ t[i] = more[i + 1]
  BY <1>1, <1>6
<1> QED
  BY <1>1, <1>2, <1>3, <1>4, <1>5, <1>7, <1>8, <1>9, <1>10, <1>11 DEF h, t

(* One iteration of the loop changes nothing of what the merge will leave: *)
(* its pair either overwrites one there or is the first of the new ones.   *)
LEMMA MergedStepInPlace ==
  ASSUME NEW pairs \in Seq(Pairs), Distinct(pairs),
         NEW more \in Seq(Pairs), more # <<>>, Distinct(more),
         Head(more).f \in KeySet(pairs)
  PROVE  Merged(Updated(pairs, Head(more).f, Head(more).s), Tail(more)) = Merged(pairs, more)
<1> DEFINE h == Head(more)
           t == Tail(more)
           u == Updated(pairs, h.f, h.s)
           G == New(u, t)
           a == Overwritten(u, t)
           o == Overwritten(pairs, more)
<1>1. /\ h = more[1] /\ h \in Pairs /\ h.f \in Keys /\ h.s \in Values
      /\ h = Pair(h.f, h.s) /\ t \in Seq(Pairs) /\ Distinct(t)
      /\ Len(more) \in Nat \ {0} /\ Len(t) = Len(more) - 1
      /\ \A i \in 1..Len(t) : i + 1 \in 1..Len(more) /\ t[i] = more[i + 1]
      /\ h.f \notin KeySet(t) /\ KeySet(more) = KeySet(t) \cup {h.f}
      /\ Bound(more)[h.f] = h.s
      /\ \A k \in KeySet(t) : Bound(more)[k] = Bound(t)[k]
  BY TailKeys
<1>2. /\ u \in Seq(Pairs) /\ Len(u) = Len(pairs)
      /\ \A i \in 1..Len(pairs) : u[i] = IF pairs[i].f = h.f THEN h ELSE pairs[i]
  BY <1>1, UpdatedIs
<1>3. h.f \in KeySet(pairs)
  OBVIOUS
<1>4. KeySet(u) = KeySet(pairs)
  <2>1. KeySet(u) = KeySet(pairs) \cup {h.f}
    BY <1>1, KeySetUpdated
  <2> HIDE DEF h, u
  <2> QED
    BY <1>3, <2>1
<1>5. G = {i \in 1..Len(t) : t[i].f \notin KeySet(pairs)} /\ G \in SUBSET (1..Len(t))
  <2> HIDE DEF u, t
  <2> QED
    BY <1>1, <1>2, <1>4, NewIs
<1>6. New(pairs, more) = {i \in 1..Len(more) : more[i].f \notin KeySet(pairs)}
  BY NewIs
<1>7. New(pairs, more) = Shifted(G)
  <2> HIDE DEF h, t, G
  <2>1. ASSUME NEW i \in New(pairs, more) PROVE i \in Shifted(G)
    <3>1. i \in 1..Len(more) /\ more[i].f \notin KeySet(pairs)
      BY <1>6
    <3>2. i # 1
      BY <1>1, <1>3, <3>1
    <3>3. i - 1 \in 1..Len(t) /\ (i - 1) + 1 = i
      BY <1>1, <3>1, <3>2
    <3>4. i - 1 \in G
      BY <1>1, <1>5, <3>1, <3>3
    <3> QED
      BY <3>3, <3>4 DEF Shifted
  <2>2. ASSUME NEW i \in G PROVE i + 1 \in New(pairs, more)
    BY <1>1, <1>5, <1>6
  <2> QED
    BY <2>1, <2>2 DEF Shifted
<1>8. Chosen(more, New(pairs, more)) = Chosen(t, G)
  <2>1. G \in SUBSET (1..Len(more) - 1)
    BY <1>1, <1>5
  <2> HIDE DEF G
  <2> QED
    BY <1>7, <2>1, ChosenOfTail
<1>9. /\ a \in Seq(Pairs) /\ Len(a) = Len(u)
      /\ \A i \in 1..Len(u) : a[i] = IF u[i].f \in KeySet(t)
                                     THEN Pair(u[i].f, Bound(t)[u[i].f]) ELSE u[i]
  <2> HIDE DEF u, t
  <2> QED
    BY <1>1, <1>2, OverwrittenIs
<1>10. /\ o \in Seq(Pairs) /\ Len(o) = Len(pairs)
       /\ \A i \in 1..Len(pairs) : o[i] = IF pairs[i].f \in KeySet(more)
                                          THEN Pair(pairs[i].f, Bound(more)[pairs[i].f]) ELSE pairs[i]
  BY OverwrittenIs
<1> HIDE DEF a, o, u, t, h, G
<1>11. ASSUME NEW i \in 1..Len(pairs) PROVE a[i] = o[i]
  <2>1. CASE pairs[i].f = h.f
    <3>1. u[i] = h /\ a[i] = h
      BY <1>1, <1>2, <1>9, <2>1
    <3>2. o[i] = Pair(h.f, h.s)
      BY <1>1, <1>10, <2>1
    <3> QED
      BY <1>1, <3>1, <3>2
  <2>2. CASE pairs[i].f # h.f
    <3>1. u[i] = pairs[i] /\ i \in 1..Len(u)
      BY <1>2, <2>2
    <3>2. pairs[i].f \in KeySet(more) <=> pairs[i].f \in KeySet(t)
      BY <1>1, <2>2
    <3>3. a[i] = IF pairs[i].f \in KeySet(t)
                 THEN Pair(pairs[i].f, Bound(t)[pairs[i].f]) ELSE pairs[i]
      BY <1>9, <3>1
    <3>4. o[i] = IF pairs[i].f \in KeySet(more)
                 THEN Pair(pairs[i].f, Bound(more)[pairs[i].f]) ELSE pairs[i]
      BY <1>10
    <3>5. pairs[i].f \in KeySet(t) => Bound(more)[pairs[i].f] = Bound(t)[pairs[i].f]
      BY <1>1
    <3> QED
      BY <3>2, <3>3, <3>4, <3>5
  <2> QED
    BY <2>1, <2>2
<1>12. a = o
  BY <1>2, <1>9, <1>10, <1>11, SeqEqual
<1>13. Merged(u, t) = a \o Chosen(t, G) /\ Merged(pairs, more) = o \o Chosen(more, New(pairs, more))
  BY DEF Merged, a, o, G
<1>14. Merged(u, t) = Merged(pairs, more)
  BY <1>8, <1>12, <1>13
<1> QED
  BY <1>14 DEF u, t, h

LEMMA MergedStepAtEnd ==
  ASSUME NEW pairs \in Seq(Pairs), Distinct(pairs),
         NEW more \in Seq(Pairs), more # <<>>, Distinct(more),
         Head(more).f \notin KeySet(pairs)
  PROVE  Merged(Updated(pairs, Head(more).f, Head(more).s), Tail(more)) = Merged(pairs, more)
<1> DEFINE h == Head(more)
           t == Tail(more)
           u == Updated(pairs, h.f, h.s)
           l == Len(pairs)
           G == New(u, t)
           N == Cardinality(G)
           c == Chosen(more, New(pairs, more))
           d == Chosen(t, G)
           a == Overwritten(u, t)
           o == Overwritten(pairs, more)
<1>1. /\ h = more[1] /\ h \in Pairs /\ h.f \in Keys /\ h.s \in Values
      /\ h = Pair(h.f, h.s) /\ t \in Seq(Pairs) /\ Distinct(t)
      /\ Len(more) \in Nat \ {0} /\ Len(t) = Len(more) - 1
      /\ \A i \in 1..Len(t) : i + 1 \in 1..Len(more) /\ t[i] = more[i + 1]
      /\ h.f \notin KeySet(t) /\ KeySet(more) = KeySet(t) \cup {h.f}
      /\ \A k \in KeySet(t) : Bound(more)[k] = Bound(t)[k]
  BY TailKeys
<1>2. /\ l \in Nat /\ u \in Seq(Pairs) /\ Len(u) = l + 1
      /\ \A i \in 1..l : u[i] = pairs[i]
      /\ u[l + 1] = h
  <2>1. \A i \in 1..l : pairs[i].f \in KeySet(pairs) /\ l \in Nat
    BY KeyedIs DEF KeySet
  <2>2. l \in Nat
    BY KeyedIs
  <2>3. /\ u \in Seq(Pairs)
        /\ Len(u) = IF h.f \in KeySet(pairs) THEN l ELSE l + 1
        /\ \A i \in 1..l : u[i] = IF pairs[i].f = h.f THEN Pair(h.f, h.s) ELSE pairs[i]
        /\ h.f \notin KeySet(pairs) => u[l + 1] = Pair(h.f, h.s)
    BY <1>1, UpdatedIs
  <2>4. h.f \notin KeySet(pairs)
    OBVIOUS
  <2> HIDE DEF h, u, l
  <2> QED
    BY <1>1, <2>1, <2>2, <2>3, <2>4
<1>3. KeySet(u) = KeySet(pairs) \cup {h.f}
  BY <1>1, KeySetUpdated
<1>4. h.f \notin KeySet(pairs) /\ \A i \in 1..l : pairs[i].f \in KeySet(pairs)
  BY KeyedIs DEF KeySet
<1>5. /\ G = {i \in 1..Len(t) : t[i].f \notin KeySet(pairs)}
      /\ G \in SUBSET (1..Len(more) - 1)
  <2> HIDE DEF u, t
  <2>1. G = {i \in 1..Len(t) : t[i].f \notin KeySet(u)} /\ G \in SUBSET (1..Len(t))
    BY <1>1, <1>2, NewIs
  <2>2. \A i \in 1..Len(t) : t[i].f \in KeySet(t)
    BY <1>1, KeyedIs DEF KeySet
  <2> QED
    BY <1>1, <1>3, <2>1, <2>2
<1>6. New(pairs, more) = {i \in 1..Len(more) : more[i].f \notin KeySet(pairs)}
  BY NewIs
<1>7. New(pairs, more) = WithFirst(G)
  <2> HIDE DEF h, t, G
  <2>1. ASSUME NEW i \in New(pairs, more), i # 1 PROVE i \in Shifted(G)
    <3>1. i \in 1..Len(more) /\ more[i].f \notin KeySet(pairs)
      BY <1>6
    <3>2. i - 1 \in 1..Len(t) /\ (i - 1) + 1 = i
      BY <1>1, <2>1, <3>1
    <3>3. i - 1 \in G
      BY <1>1, <1>5, <3>1, <3>2
    <3> QED
      BY <3>2, <3>3 DEF Shifted
  <2>2. ASSUME NEW i \in G PROVE i + 1 \in New(pairs, more)
    BY <1>1, <1>5, <1>6
  <2>3. 1 \in New(pairs, more)
    BY <1>1, <1>4, <1>6
  <2> QED
    BY <2>1, <2>2, <2>3 DEF WithFirst, Shifted
<1>8. /\ N \in Nat /\ d \in Seq(Pairs) /\ Len(d) = N
  <2> HIDE DEF G, t
  <2>1. G \in SUBSET (1..Len(t))
    BY <1>1, <1>5
  <2> QED
    BY <1>1, <2>1, ChosenSeq
<1>9. /\ c \in Seq(Pairs) /\ Len(c) = N + 1 /\ c[1] = h
      /\ \A n \in 1..N : c[n + 1] = d[n]
  <2>1. c = Chosen(more, WithFirst(G))
    BY <1>7
  <2>2. G \in SUBSET (1..Len(more) - 1)
    BY <1>5
  <2> HIDE DEF G, c, h
  <2>3. /\ c \in Seq(Pairs) /\ Len(c) = Cardinality(G) + 1 /\ c[1] = more[1]
        /\ \A n \in 1..Cardinality(G) : c[n + 1] = Chosen(Tail(more), G)[n]
    BY <2>1, <2>2, ChosenWithHead
  <2> QED
    BY <1>1, <2>3
<1>10. /\ a \in Seq(Pairs) /\ Len(a) = l + 1
       /\ \A i \in 1..l + 1 : a[i] = IF u[i].f \in KeySet(t)
                                     THEN Pair(u[i].f, Bound(t)[u[i].f]) ELSE u[i]
  <2> HIDE DEF u, t
  <2>1. /\ a \in Seq(Pairs) /\ Len(a) = Len(u)
        /\ \A i \in 1..Len(u) : a[i] = IF u[i].f \in KeySet(t)
                                       THEN Pair(u[i].f, Bound(t)[u[i].f]) ELSE u[i]
    BY <1>1, <1>2, OverwrittenIs
  <2> HIDE DEF a, l
  <2> QED
    BY <1>2, <2>1
<1>11. /\ o \in Seq(Pairs) /\ Len(o) = l
       /\ \A i \in 1..l : o[i] = IF pairs[i].f \in KeySet(more)
                                 THEN Pair(pairs[i].f, Bound(more)[pairs[i].f]) ELSE pairs[i]
  BY OverwrittenIs
<1> DEFINE x == a \o d
           y == o \o c
<1> HIDE DEF a, o, u, t, h, G, c, d, l, N
<1>12. ASSUME NEW i \in 1..l PROVE a[i] = o[i]
  <2>1. u[i] = pairs[i] /\ i \in 1..l + 1 /\ pairs[i].f # h.f
    BY <1>2, <1>4
  <2>2. pairs[i].f \in KeySet(more) <=> pairs[i].f \in KeySet(t)
    BY <1>1, <2>1
  <2>3. a[i] = IF pairs[i].f \in KeySet(t)
               THEN Pair(pairs[i].f, Bound(t)[pairs[i].f]) ELSE pairs[i]
    BY <1>10, <2>1
  <2>4. CASE pairs[i].f \in KeySet(t)
    BY <1>1, <1>11, <2>2, <2>3, <2>4
  <2>5. CASE pairs[i].f \notin KeySet(t)
    BY <1>11, <2>2, <2>3, <2>5
  <2> QED
    BY <2>4, <2>5
<1>13. a[l + 1] = h
  <2>1. u[l + 1] = h /\ h.f \notin KeySet(t) /\ l + 1 \in 1..l + 1
    BY <1>1, <1>2
  <2> QED
    BY <1>10, <2>1
<1>14. /\ x \in Seq(Pairs) /\ Len(x) = Len(a) + Len(d)
       /\ \A i \in 1..Len(a) + Len(d) : x[i] = IF i <= Len(a) THEN a[i] ELSE d[i - Len(a)]
  BY <1>8, <1>10, ConcatProperties
<1>15. /\ y \in Seq(Pairs) /\ Len(y) = Len(o) + Len(c)
       /\ \A i \in 1..Len(o) + Len(c) : y[i] = IF i <= Len(o) THEN o[i] ELSE c[i - Len(o)]
  BY <1>9, <1>11, ConcatProperties
<1> HIDE DEF x, y
<1>16. Len(x) = Len(y) /\ Len(x) = l + 1 + N
  BY <1>2, <1>8, <1>9, <1>10, <1>11, <1>14, <1>15
<1>17. ASSUME NEW i \in 1..l + 1 + N PROVE x[i] = y[i]
  <2>1. CASE i \in 1..l
    <3>1. i \in 1..Len(a) + Len(d) /\ i <= Len(a)
      BY <1>2, <1>8, <1>10, <2>1
    <3>2. i \in 1..Len(o) + Len(c) /\ i <= Len(o)
      BY <1>2, <1>8, <1>9, <1>11, <2>1
    <3>3. x[i] = a[i] /\ y[i] = o[i]
      BY <1>14, <1>15, <3>1, <3>2
    <3> QED
      BY <1>12, <2>1, <3>3
  <2>2. CASE i = l + 1
    <3>1. x[i] = a[l + 1]
      BY <1>2, <1>8, <1>10, <1>14, <2>2
    <3>2. y[i] = c[1]
      BY <1>2, <1>8, <1>9, <1>11, <1>15, <2>2
    <3> QED
      BY <1>9, <1>13, <3>1, <3>2
  <2>3. CASE i \notin 1..l /\ i # l + 1
    <3> DEFINE n == i - (l + 1)
    <3>1. n \in 1..N /\ i = l + 1 + n
      BY <1>2, <1>8, <2>3
    <3>2. x[i] = d[n]
      BY <1>2, <1>8, <1>10, <1>14, <3>1
    <3>3. y[i] = c[n + 1]
      <4>1. i \in 1..Len(o) + Len(c) /\ ~ i <= Len(o) /\ i - Len(o) = n + 1
        BY <1>2, <1>8, <1>9, <1>11, <3>1
      <4> QED
        BY <1>15, <4>1
    <3> HIDE DEF n
    <3> QED
      BY <1>9, <3>1, <3>2, <3>3
  <2> QED
    BY <2>1, <2>2, <2>3
<1>18. x = y
  BY <1>14, <1>15, <1>16, <1>17, SeqEqual
<1>19. Merged(u, t) = x /\ Merged(pairs, more) = y
  BY DEF Merged, x, y, a, o, c, d, G
<1> QED
  BY <1>18, <1>19 DEF u, t, h

-----------------------------------------------------------------------------
(* The calls, as the language promises them. *)

LEMMA MergedStep ==
  ASSUME NEW pairs \in Seq(Pairs), Distinct(pairs),
         NEW more \in Seq(Pairs), more # <<>>, Distinct(more)
  PROVE  Merged(Updated(pairs, Head(more).f, Head(more).s), Tail(more)) = Merged(pairs, more)
BY MergedStepInPlace, MergedStepAtEnd

LEMMA ContentFields ==
  ASSUME NEW pairs \in Seq(Pairs), Distinct(pairs)
  PROVE  LET c == ContentOf(pairs) IN
         /\ c = [keys |-> Keyed(pairs), value |-> Bound(pairs)]
         /\ c.keys = Keyed(pairs) /\ c.value = Bound(pairs)
         /\ Abstract!Range(c.keys) = KeySet(pairs) /\ DOMAIN c.value = KeySet(pairs)
<1>1. ContentOf(pairs) = [keys |-> Keyed(pairs), value |-> Bound(pairs)]
  BY DEF ContentOf, Keyed
<1>2. Abstract!Range(Keyed(pairs)) = KeySet(pairs)
  BY DEF Abstract!Range, Keyed, KeySet
<1>3. DOMAIN Bound(pairs) = KeySet(pairs)
  BY BoundIs
<1> QED
  BY <1>1, <1>2, <1>3

LEMMA ChosenTwice ==
  ASSUME NEW s, NEW P
  PROVE  Abstract!Chosen(s, P) = Chosen(s, P)
<1>0. ASSUME NEW S PROVE Abstract!Cardinality(S) = Cardinality(S)
  BY Zenon DEF Abstract!Cardinality, Cardinality
<1>1. ASSUME NEW n PROVE Abstract!Nth(P, n) = Nth(P, n)
  BY Zenon, <1>0 DEF Abstract!Nth, Nth
<1> QED
  BY <1>0, <1>1 DEF Abstract!Chosen, Chosen

LEMMA SetContent ==
  ASSUME NEW pairs \in Seq(Pairs), Distinct(pairs), NEW k \in Keys, NEW v \in Values,
         NEW c, c = ContentOf(pairs)
  PROVE  ContentOf(Updated(pairs, k, v)) =
           [keys  |-> IF k \in Abstract!Range(c.keys) THEN c.keys ELSE Append(c.keys, k),
            value |-> Abstract!Bind(c.value, k, v)]
<1> DEFINE u == Updated(pairs, k, v)
<1>1. ContentOf(u) = [keys |-> Keyed(u), value |-> Bound(u)]
  BY DEF ContentOf, Keyed
<1>2. /\ Keyed(u) = IF k \in KeySet(pairs) THEN Keyed(pairs) ELSE Append(Keyed(pairs), k)
      /\ Bound(u) = [q \in KeySet(pairs) \cup {k} |-> IF q = k THEN v ELSE Bound(pairs)[q]]
  BY KeyedUpdated, BoundUpdated
<1>3. /\ c.keys = Keyed(pairs) /\ c.value = Bound(pairs)
      /\ Abstract!Range(c.keys) = KeySet(pairs) /\ DOMAIN c.value = KeySet(pairs)
  BY ContentFields
<1>4. Abstract!Bind(c.value, k, v) = Bound(u)
  BY <1>2, <1>3 DEF Abstract!Bind
<1> HIDE DEF u
<1>5. ContentOf(u) = [keys  |-> IF k \in Abstract!Range(c.keys) THEN c.keys ELSE Append(c.keys, k),
                      value |-> Abstract!Bind(c.value, k, v)]
  BY <1>1, <1>2, <1>3, <1>4
<1> QED
  BY <1>5 DEF u

LEMMA RemoveContent ==
  ASSUME NEW pairs \in Seq(Pairs), Distinct(pairs), NEW k, Found(pairs, k) # {},
         NEW c, c = ContentOf(pairs)
  PROVE  /\ k \in Abstract!Range(c.keys)
         /\ ContentOf(Without(pairs, FirstIn(Found(pairs, k)))) =
              [keys  |-> Abstract!Chosen(c.keys, {i \in DOMAIN c.keys : c.keys[i] # k}),
               value |-> Abstract!Restrict(c.value, DOMAIN c.value \ {k})]
<1> DEFINE i == FirstIn(Found(pairs, k))
           w == Without(pairs, i)
<1>1. i \in 1..Len(pairs) /\ pairs[i].f = k
  BY FoundIndex
<1> HIDE DEF i
<1>2. /\ Keyed(w) = Chosen(Keyed(pairs), OtherPlaces(Keyed(pairs), k))
      /\ Bound(w) = [q \in KeySet(pairs) \ {k} |-> Bound(pairs)[q]]
  BY <1>1, KeyedWithout, BoundWithout
<1>3. /\ c.keys = Keyed(pairs) /\ c.value = Bound(pairs)
      /\ Abstract!Range(c.keys) = KeySet(pairs) /\ DOMAIN c.value = KeySet(pairs)
  BY ContentFields
<1>4. ContentOf(w) = [keys |-> Keyed(w), value |-> Bound(w)]
  BY DEF ContentOf, Keyed
<1>5. k \in Abstract!Range(c.keys)
  BY <1>1, <1>3, KeyedIs DEF KeySet
<1>6. Abstract!Chosen(c.keys, {j \in DOMAIN c.keys : c.keys[j] # k}) = Keyed(w)
  BY <1>2, <1>3, ChosenTwice DEF OtherPlaces
<1>7. Abstract!Restrict(c.value, DOMAIN c.value \ {k}) = Bound(w)
  BY <1>2, <1>3 DEF Abstract!Restrict
<1> HIDE DEF w
<1>8. ContentOf(w) = [keys  |-> Abstract!Chosen(c.keys, {j \in DOMAIN c.keys : c.keys[j] # k}),
                      value |-> Abstract!Restrict(c.value, DOMAIN c.value \ {k})]
  BY <1>4, <1>6, <1>7
<1> QED
  BY <1>5, <1>8 DEF w, i

Joined(m, n) ==
  [keys  |-> Abstract!Extended(m.keys, n.keys),
   value |-> [k \in DOMAIN m.value \cup DOMAIN n.value |->
                IF k \in DOMAIN n.value THEN n.value[k] ELSE m.value[k]]]

LEMMA MergeContent ==
  ASSUME NEW pairs \in Seq(Pairs), Distinct(pairs),
         NEW more \in Seq(Pairs), Distinct(more),
         NEW m, m = ContentOf(pairs), NEW n, n = ContentOf(more)
  PROVE  ContentOf(Merged(pairs, more)) = Joined(m, n)
<1> DEFINE g == Merged(pairs, more)
<1>1. /\ Keyed(g) = Keyed(pairs) \o Chosen(Keyed(more), NewPlaces(Keyed(more), KeySet(pairs)))
      /\ Bound(g) = [k \in KeySet(pairs) \cup KeySet(more) |->
                       IF k \in KeySet(more) THEN Bound(more)[k] ELSE Bound(pairs)[k]]
  BY KeyedMerged, BoundMerged
<1>2. /\ m.keys = Keyed(pairs) /\ m.value = Bound(pairs)
      /\ Abstract!Range(m.keys) = KeySet(pairs) /\ DOMAIN m.value = KeySet(pairs)
  BY ContentFields
<1>3. n.keys = Keyed(more) /\ n.value = Bound(more) /\ DOMAIN n.value = KeySet(more)
  BY ContentFields
<1>4. ContentOf(g) = [keys |-> Keyed(g), value |-> Bound(g)]
  BY DEF ContentOf, Keyed
<1> HIDE DEF g
<1>5. Abstract!Extended(m.keys, n.keys) = Keyed(g)
  BY <1>1, <1>2, <1>3, ChosenTwice DEF Abstract!Extended, NewPlaces
<1>6. [k \in DOMAIN m.value \cup DOMAIN n.value |->
         IF k \in DOMAIN n.value THEN n.value[k] ELSE m.value[k]] = Bound(g)
  BY <1>1, <1>2, <1>3
<1>7. ContentOf(g) = [keys  |-> Abstract!Extended(m.keys, n.keys),
                      value |-> [k \in DOMAIN m.value \cup DOMAIN n.value |->
                                   IF k \in DOMAIN n.value THEN n.value[k] ELSE m.value[k]]]
  BY <1>4, <1>5, <1>6
<1> QED
  BY <1>7 DEF g, Joined

LEMMA EmptyContent == ContentOf(<<>>) = Abstract!Empty
<1>1. DOMAIN <<>> = {}
  OBVIOUS
<1>2. Keyed(<<>>) = <<>>
  BY <1>1 DEF Keyed
<1>3. Bound(<<>>) = <<>>
  BY <1>1 DEF Bound
<1> QED
  BY <1>2, <1>3 DEF ContentOf, Keyed, Abstract!Empty

(* A literal of pairs with distinct keys. *)
Valued(pairs)   == [i \in DOMAIN pairs |-> pairs[i].s]
Paired(ks, vs) == [k \in Abstract!Range(ks) |-> vs[CHOOSE i \in DOMAIN ks : ks[i] = k]]

LEMMA LiteralContent ==
  ASSUME NEW pairs \in Seq(Pairs), Distinct(pairs),
         NEW ks, ks = Keyed(pairs), NEW vs, vs = Valued(pairs)
  PROVE  ContentOf(pairs) = [keys |-> ks, value |-> Paired(ks, vs)]
<1> DEFINE f == [k \in Abstract!Range(ks) |-> vs[CHOOSE i \in DOMAIN ks : ks[i] = k]]
<1>1. /\ DOMAIN pairs = 1..Len(pairs) /\ DOMAIN ks = 1..Len(pairs)
      /\ \A i \in 1..Len(pairs) : ks[i] = pairs[i].f /\ vs[i] = pairs[i].s
  BY KeyedIs DEF Valued
<1>2. Abstract!Range(ks) = KeySet(pairs)
  BY <1>1 DEF Abstract!Range, KeySet
<1>3. ASSUME NEW i \in 1..Len(pairs) PROVE f[pairs[i].f] = pairs[i].s
  <2> DEFINE k == pairs[i].f
             j == CHOOSE x \in DOMAIN ks : ks[x] = k
  <2>1. j \in 1..Len(pairs) /\ ks[j] = k
    BY <1>1
  <2>2. j = i
    BY <1>1, <2>1 DEF Distinct
  <2>3. f[k] = vs[j]
    BY <1>1, <1>2 DEF KeySet
  <2> HIDE DEF f, j
  <2> QED
    BY <1>1, <2>2, <2>3
<1>4. f = [k \in KeySet(pairs) |-> f[k]]
  BY <1>2
<1> HIDE DEF f
<1>5. Bound(pairs) = f
  BY <1>3, <1>4, BoundFrom
<1>6. ContentOf(pairs) = [keys |-> ks, value |-> f]
  BY <1>5 DEF ContentOf, Keyed
<1> QED
  BY <1>6 DEF f, Paired

LEMMA LiteralOfOne ==
  ASSUME NEW p \in Pairs
  PROVE  /\ <<p>> \in Seq(Pairs) /\ Distinct(<<p>>)
         /\ Keyed(<<p>>) = <<p.f>> /\ Valued(<<p>>) = <<p.s>>
<1> DEFINE s == <<p>>
<1>1. s \in Seq(Pairs) /\ Len(s) = 1 /\ s[1] = p
  OBVIOUS
<1>2. DOMAIN s = 1..1
  BY <1>1, KeyedIs
<1>3. <<p.f>> = [i \in 1..1 |-> p.f] /\ <<p.s>> = [i \in 1..1 |-> p.s]
  OBVIOUS
<1> HIDE DEF s
<1>4. \A i \in 1..1 : i = 1
  OBVIOUS
<1>5. Keyed(s) = [i \in 1..1 |-> p.f] /\ Valued(s) = [i \in 1..1 |-> p.s]
  BY <1>1, <1>2, <1>4 DEF Keyed, Valued
<1>6. Distinct(s)
  BY <1>2, <1>4 DEF Distinct
<1> QED
  BY <1>1, <1>3, <1>5, <1>6 DEF s

LEMMA LiteralOfTwo ==
  ASSUME NEW p \in Pairs, NEW q \in Pairs
  PROVE  /\ <<p, q>> \in Seq(Pairs) /\ (Distinct(<<p, q>>) => p.f # q.f)
         /\ Keyed(<<p, q>>) = <<p.f, q.f>> /\ Valued(<<p, q>>) = <<p.s, q.s>>
<1> DEFINE s == <<p, q>>
<1>1. s \in Seq(Pairs) /\ Len(s) = 2 /\ s[1] = p /\ s[2] = q
  OBVIOUS
<1>2. DOMAIN s = 1..2
  BY <1>1, KeyedIs
<1>3. /\ <<p.f, q.f>> = [i \in 1..2 |-> IF i = 1 THEN p.f ELSE q.f]
      /\ <<p.s, q.s>> = [i \in 1..2 |-> IF i = 1 THEN p.s ELSE q.s]
  OBVIOUS
<1> HIDE DEF s
<1>4. \A i \in 1..2 : i = 1 \/ i = 2
  OBVIOUS
<1>5. /\ Keyed(s) = [i \in 1..2 |-> IF i = 1 THEN p.f ELSE q.f]
      /\ Valued(s) = [i \in 1..2 |-> IF i = 1 THEN p.s ELSE q.s]
  BY <1>1, <1>2, <1>4 DEF Keyed, Valued
<1>6. Distinct(s) => p.f # q.f
  BY <1>1, <1>2 DEF Distinct
<1> QED
  BY <1>1, <1>3, <1>5, <1>6 DEF s

-----------------------------------------------------------------------------
(* Every step as a step of the promise. *)

PairsOk(pairs) == pairs \in Seq(Pairs) /\ Distinct(pairs)

LEMMA PairsAreOk ==
  ASSUME ~DuplicateLiterals, MapInv, NEW x \in Vars
  PROVE  PairsOk(map[x].pairs) /\ PairsOk(todo)
BY MapOkHolds DEF PairsOk, MapOk, MapInv, MapTypes, DistinctFromLiterals

LEMMA ContentsIs ==
  ASSUME NEW x \in Vars
  PROVE  /\ x # into => Contents[x] = ContentOf(map[x].pairs)
         /\ x = into => Contents[x] = ContentOf(Merged(map[x].pairs, todo))
BY DEF Contents, Content

LEMMA ContentsIdle ==
  ASSUME into = NoVar, NEW x \in Vars
  PROVE  Contents[x] = ContentOf(map[x].pairs)
BY ContentsIs, VarsAssumption

LEMMA ContentsReplaced ==
  ASSUME into = NoVar, into' = NoVar, NEW x \in Vars, NEW m,
         map \in [Vars -> Maps], map' = [map EXCEPT ![x] = m]
  PROVE  Contents' = [Contents EXCEPT ![x] = ContentOf(m.pairs)]
<1>1. Contents = [y \in Vars |-> ContentOf(map[y].pairs)]
  BY VarsAssumption DEF Contents, Content
<1>2. Contents' = [y \in Vars |-> ContentOf(map'[y].pairs)]
  BY VarsAssumption DEF Contents, Content
<1>3. map'[x] = m /\ \A y \in Vars \ {x} : map'[y] = map[y]
  OBVIOUS
<1>4. \A y \in Vars : ContentOf(map'[y].pairs) = IF y = x THEN ContentOf(m.pairs)
                                                          ELSE ContentOf(map[y].pairs)
  BY <1>3
<1> QED
  BY <1>1, <1>2, <1>4

LEMMA ContentsStay ==
  ASSUME UNCHANGED <<map, into, todo>>
  PROVE  UNCHANGED Contents
BY DEF Contents, Content

(* Nothing is seen of a map that only moves. *)
LEMMA ContentsMoved ==
  ASSUME into = NoVar, into' = NoVar, NEW x \in Vars, NEW m,
         map \in [Vars -> Maps], map' = [map EXCEPT ![x] = m], m.pairs = map[x].pairs
  PROVE  UNCHANGED Contents
<1>1. Contents' = [Contents EXCEPT ![x] = ContentOf(map[x].pairs)]
  BY ContentsReplaced
<1>2. Contents[x] = ContentOf(map[x].pairs)
  BY ContentsIdle
<1>3. Contents = [y \in Vars |-> Contents[y]]
  BY DEF Contents
<1> QED
  BY <1>1, <1>2, <1>3

LEMMA LiteralAgrees ==
  ASSUME ~DuplicateLiterals, MapInv, NEW x \in Vars, NEW pairs \in Seq(Pairs),
         Literal(x, pairs)
  PROVE  Distinct(pairs) /\ Abstract!Literal(x, Keyed(pairs), Valued(pairs))
<1>1. Distinct(pairs) /\ into = NoVar /\ into' = NoVar /\ map \in [Vars -> Maps]
  BY DEF Literal, Idle, Stays, MapInv, MapTypes
<1>2. map' = [map EXCEPT ![x] = Fresh(pairs, Len(pairs))]
  BY DEF Literal, Replace
<1>3. Fresh(pairs, Len(pairs)).pairs = pairs
  BY DEF Fresh
<1>4. Contents' = [Contents EXCEPT ![x] = ContentOf(pairs)]
  BY <1>1, <1>2, <1>3, ContentsReplaced
<1> DEFINE ks == Keyed(pairs)
           vs == Valued(pairs)
<1>5. ContentOf(pairs) = [keys |-> ks, value |-> Paired(ks, vs)]
  BY <1>1, LiteralContent
<1> HIDE DEF ks, vs
<1>6. Contents' = [Contents EXCEPT ![x] = [keys |-> ks, value |-> Paired(ks, vs)]]
  BY <1>4, <1>5
<1>7. Abstract!Literal(x, ks, vs)
  BY <1>6 DEF Abstract!Literal, Paired
<1> QED
  BY <1>1, <1>7 DEF ks, vs

LEMMA AssignAgrees ==
  ASSUME MapInv, NEW x \in Vars, NEW y \in Vars, Assign(x, y)
  PROVE  Abstract!Assign(x, y)
<1>1. /\ into = NoVar /\ into' = NoVar /\ map \in [Vars -> Maps]
      /\ map' = [map EXCEPT ![x] = Fresh(map[y].pairs, map[y].c)]
  BY DEF Assign, Replace, Idle, Stays, MapInv, MapTypes
<1>2. Fresh(map[y].pairs, map[y].c).pairs = map[y].pairs
  BY DEF Fresh
<1>3. Contents' = [Contents EXCEPT ![x] = ContentOf(map[y].pairs)]
  BY <1>1, <1>2, ContentsReplaced
<1>4. Contents[y] = ContentOf(map[y].pairs)
  BY <1>1, ContentsIdle
<1> QED
  BY <1>3, <1>4 DEF Abstract!Assign

LEMMA ClearAgrees ==
  ASSUME MapInv, NEW x \in Vars, Clear(x)
  PROVE  Abstract!Clear(x)
<1>1. /\ into = NoVar /\ into' = NoVar /\ map \in [Vars -> Maps]
      /\ map' = [map EXCEPT ![x] = Cleared(map[x])]
  BY DEF Clear, Replace, Idle, Stays, MapInv, MapTypes
<1>2. Cleared(map[x]).pairs = <<>>
  BY <1>1, ClearedSound
<1>3. Contents' = [Contents EXCEPT ![x] = Abstract!Empty]
  BY <1>1, <1>2, ContentsReplaced, EmptyContent
<1> QED
  BY <1>3 DEF Abstract!Clear

LEMMA RemoveAgrees ==
  ASSUME ~DuplicateLiterals, MapInv, NEW x \in Vars, NEW k \in Keys, Remove(x, k)
  PROVE  Abstract!Remove(x, k)
<1> DEFINE pairs == map[x].pairs
           w == Without(pairs, FirstIn(Found(pairs, k)))
           m == [map[x] EXCEPT !.pairs = w]
           c == Contents[x]
<1>1. /\ into = NoVar /\ into' = NoVar /\ map \in [Vars -> Maps] /\ map[x] \in Maps
      /\ map' = [map EXCEPT ![x] = m] /\ Found(pairs, k) # {}
  BY DEF Remove, Has, Replace, Idle, Stays, MapInv, MapTypes
<1>2. m.pairs = w
  BY <1>1 DEF Maps
<1>3. Contents' = [Contents EXCEPT ![x] = ContentOf(w)]
  <2> HIDE DEF m, w
  <2> QED
    BY <1>1, <1>2, ContentsReplaced
<1>4. c = ContentOf(pairs)
  BY <1>1, ContentsIdle
<1>5. pairs \in Seq(Pairs) /\ Distinct(pairs)
  BY PairsAreOk DEF PairsOk
<1> HIDE DEF pairs, c
<1>6. /\ k \in Abstract!Range(c.keys)
      /\ ContentOf(w) =
           [keys  |-> Abstract!Chosen(c.keys, {i \in DOMAIN c.keys : c.keys[i] # k}),
            value |-> Abstract!Restrict(c.value, DOMAIN c.value \ {k})]
  BY <1>1, <1>4, <1>5, RemoveContent
<1> HIDE DEF w
<1>7. Contents' = [Contents EXCEPT ![x] =
        [keys  |-> Abstract!Chosen(c.keys, {i \in DOMAIN c.keys : c.keys[i] # k}),
         value |-> Abstract!Restrict(c.value, DOMAIN c.value \ {k})]]
  BY <1>3, <1>6
<1> QED
  BY <1>6, <1>7 DEF Abstract!Remove, c

LEMMA SetAgrees ==
  ASSUME ~DuplicateLiterals, MapInv, NEW x \in Vars, NEW k \in Keys, NEW v \in Values,
         Set(x, k, v), status' = "running"
  PROVE  Abstract!Set(x, k, v)
<1> DEFINE o == map[x]
           m == IF Lookup(o.pairs, k) # {} THEN o ELSE Ensured(o, Len(o.pairs) + 1)
           n == Put(m, k, v)
           u == Updated(o.pairs, k, v)
           c == Contents[x]
<1>1. /\ into = NoVar /\ into' = NoVar /\ map \in [Vars -> Maps] /\ o \in Maps
      /\ map' = [map EXCEPT ![x] = n]
  BY DEF Set, Replace, Idle, MapInv, MapTypes
<1>2. PairsOk(o.pairs) /\ c = ContentOf(o.pairs) /\ MapOk(o) /\ Len(o.pairs) \in Nat
  BY <1>1, PairsAreOk, ContentsIdle, MapOkHolds
<1> HIDE DEF o, c
<1>3. m \in Maps /\ m.pairs = o.pairs
  <2>1. PICK l \in Nat : l = Len(o.pairs) + 1
    BY <1>2
  <2>2. Ensured(o, l) \in Maps /\ Ensured(o, l).pairs = o.pairs
    BY <1>2, EnsuredSound DEF MapOk
  <2> QED
    BY <1>1, <2>1, <2>2
<1> HIDE DEF m
<1>4. n.pairs = u
  BY <1>3 DEF Put, Maps
<1> HIDE DEF n
<1>5. Contents' = [Contents EXCEPT ![x] = ContentOf(u)]
  <2> HIDE DEF u
  <2> QED
    BY <1>1, <1>4, ContentsReplaced
<1>6. ContentOf(u) =
        [keys  |-> IF k \in Abstract!Range(c.keys) THEN c.keys ELSE Append(c.keys, k),
         value |-> Abstract!Bind(c.value, k, v)]
  <2>1. PICK p \in Seq(Pairs) : p = o.pairs
    BY <1>2 DEF PairsOk
  <2>2. Distinct(p) /\ c = ContentOf(p) /\ u = Updated(p, k, v)
    BY <1>2, <2>1 DEF PairsOk
  <2> HIDE DEF u
  <2>3. ContentOf(Updated(p, k, v)) =
          [keys  |-> IF k \in Abstract!Range(c.keys) THEN c.keys ELSE Append(c.keys, k),
           value |-> Abstract!Bind(c.value, k, v)]
    BY <2>2, SetContent
  <2> QED
    BY <2>2, <2>3
<1> HIDE DEF u
<1>7. Contents' = [Contents EXCEPT ![x] =
        [keys  |-> IF k \in Abstract!Range(c.keys) THEN c.keys ELSE Append(c.keys, k),
         value |-> Abstract!Bind(c.value, k, v)]]
  BY <1>5, <1>6
<1> QED
  BY <1>7 DEF Abstract!Set, c

LEMMA ReserveMoves ==
  ASSUME MapInv, NEW x \in Vars, NEW n \in Int, Reserve(x, n)
  PROVE  UNCHANGED Contents
<1>1. AsSize(n) \in Nat
  BY AsSizeIsNat
<1>2. /\ into = NoVar /\ into' = NoVar /\ todo' = todo /\ map \in [Vars -> Maps]
      /\ map' = map \/ map' = [map EXCEPT ![x] = Ensured(map[x], AsSize(n))]
  BY DEF Reserve, Replace, Idle, MapInv, MapTypes
<1>3. Ensured(map[x], AsSize(n)).pairs = map[x].pairs
  BY <1>1, MapOkHolds, EnsuredSound DEF MapOk
<1> QED
  BY <1>2, <1>3, ContentsStay, ContentsMoved

LEMMA ShrinkMoves ==
  ASSUME MapInv, NEW x \in Vars, Shrink(x)
  PROVE  UNCHANGED Contents
<1> DEFINE m == map[x]
           l == Len(m.pairs)
           n == IF l = 0 THEN [Cleared(m) EXCEPT !.c = 0] ELSE Grown(m, l)
<1>1. /\ into = NoVar /\ into' = NoVar /\ map \in [Vars -> Maps] /\ m \in Maps
      /\ map' = [map EXCEPT ![x] = n]
  BY DEF Shrink, Replace, Idle, Stays, MapInv, MapTypes
<1>2. n.pairs = m.pairs
  <2>1. CASE l = 0
    <3>1. n.pairs = <<>>
      BY <1>1, <2>1, ClearedSound
    <3>2. m.pairs = <<>>
      <4>1. m.pairs \in Seq(Pairs)
        BY <1>1, MapFields
      <4> QED
        BY <2>1, <4>1, EmptySeq
    <3> QED
      BY <3>1, <3>2
  <2>2. CASE l # 0
    BY <1>1, <2>2 DEF Grown, Maps
  <2> QED
    BY <2>1, <2>2
<1> HIDE DEF n
<1> QED
  BY <1>1, <1>2, ContentsMoved

(* The whole merge is promised when it begins. *)
LEMMA MergeBeginAgrees ==
  ASSUME ~DuplicateLiterals, MapInv, NEW x \in Vars, NEW y \in Vars, MergeBegin(x, y)
  PROVE  Abstract!Merge(x, y)
<1> DEFINE p == map[x].pairs
           q == map[y].pairs
           e == Ensured(map[x], MergeRoom(map[x], map[y]))
           m == Contents[x]
           n == Contents[y]
           g == Merged(p, q)
<1>1. /\ into = NoVar /\ into' = x /\ todo' = q /\ map \in [Vars -> Maps]
      /\ map' = [map EXCEPT ![x] = e]
  BY DEF MergeBegin, Idle, MapInv, MapTypes
<1>2. e.pairs = p
  <2>1. Len(p) \in Nat /\ Len(q) \in Nat /\ MapOk(map[x])
    BY MapOkHolds
  <2>2. PICK l \in Nat : l = MergeRoom(map[x], map[y])
    <3> DEFINE a == Len(p)
               b == Len(q)
    <3>1. MergeRoom(map[x], map[y]) = a + b
      BY DEF MergeRoom
    <3>2. a \in Nat /\ b \in Nat
      BY <2>1
    <3> HIDE DEF a, b
    <3>3. a + b \in Nat
      BY <3>2
    <3> QED
      BY <3>1, <3>3
  <2>3. Ensured(map[x], l).pairs = map[x].pairs
    BY <2>1, EnsuredSound DEF MapOk
  <2> QED
    BY <2>2, <2>3
<1>3. m = ContentOf(p) /\ n = ContentOf(q)
  BY <1>1, ContentsIdle
<1>4. p \in Seq(Pairs) /\ Distinct(p) /\ q \in Seq(Pairs) /\ Distinct(q)
  BY PairsAreOk DEF PairsOk
<1> HIDE DEF e
<1>5. /\ map'[x] = e /\ \A z \in Vars \ {x} : map'[z] = map[z]
      /\ x # NoVar
  BY <1>1, VarsAssumption
<1>6. Contents' = [Contents EXCEPT ![x] = ContentOf(g)]
  <2>1. Contents = [z \in Vars |-> ContentOf(map[z].pairs)]
    BY <1>1, VarsAssumption DEF Contents, Content
  <2>2. Contents' = [z \in Vars |-> IF z = x THEN ContentOf(g) ELSE ContentOf(map[z].pairs)]
    <3>1. Contents' = [z \in Vars |-> ContentOf(IF z = x THEN Merged(map'[z].pairs, q)
                                                         ELSE map'[z].pairs)]
      BY <1>1 DEF Contents, Content
    <3>2. \A z \in Vars : (IF z = x THEN Merged(map'[z].pairs, q) ELSE map'[z].pairs)
                          = IF z = x THEN g ELSE map[z].pairs
      BY <1>2, <1>5
    <3> HIDE DEF g, q
    <3> QED
      BY <3>1, <3>2
  <2> HIDE DEF g
  <2> QED
    BY <2>1, <2>2
<1> HIDE DEF p, q, m, n
<1>7. ContentOf(g) = Joined(m, n)
  BY <1>3, <1>4, MergeContent
<1> HIDE DEF g
<1>8. Contents' = [Contents EXCEPT ![x] = Joined(m, n)]
  BY <1>6, <1>7
<1> QED
  BY <1>8 DEF Abstract!Merge, Joined, m, n

LEMMA MergeStepStays ==
  ASSUME ~DuplicateLiterals, MapInv, MergeStep
  PROVE  UNCHANGED Contents
<1> DEFINE h == Head(todo)
           p == map[into].pairs
           u == Updated(p, h.f, h.s)
           m == Put(map[into], h.f, h.s)
<1>1. into \in Vars /\ into' = into /\ todo # <<>> /\ map \in [Vars -> Maps]
  BY DEF MergeStep, MapInv, MapTypes, MergeOver
<1>2. CASE CanPut(map[into], h.f)
  <2>1. map' = [map EXCEPT ![into] = m] /\ todo' = Tail(todo)
    BY <1>2 DEF MergeStep
  <2>2. m.pairs = u
    BY <1>1 DEF Put, Maps
  <2>3. p \in Seq(Pairs) /\ Distinct(p) /\ todo \in Seq(Pairs) /\ Distinct(todo)
    BY <1>1, PairsAreOk DEF PairsOk
  <2>4. Merged(u, Tail(todo)) = Merged(p, todo)
    <3> HIDE DEF p
    <3> QED
      BY <1>1, <2>3, MergedStep
  <2> HIDE DEF m, u
  <2>5. map'[into] = m /\ \A x \in Vars \ {into} : map'[x] = map[x]
    BY <1>1, <2>1
  <2>6. \A x \in Vars :
          (IF x = into THEN Merged(map'[x].pairs, todo') ELSE map'[x].pairs)
          = IF x = into THEN Merged(map[x].pairs, todo) ELSE map[x].pairs
    BY <2>1, <2>2, <2>4, <2>5
  <2>7. /\ Contents = [x \in Vars |-> ContentOf(IF x = into THEN Merged(map[x].pairs, todo)
                                                            ELSE map[x].pairs)]
        /\ Contents' = [x \in Vars |-> ContentOf(IF x = into THEN Merged(map'[x].pairs, todo')
                                                             ELSE map'[x].pairs)]
    BY <1>1 DEF Contents, Content
  <2> QED
    BY <2>6, <2>7
<1>3. CASE ~CanPut(map[into], h.f)
  BY <1>1, <1>3, ContentsStay DEF MergeStep
<1> QED
  BY <1>2, <1>3

LEMMA MergeEndStays ==
  ASSUME ~DuplicateLiterals, MapInv, MergeEnd
  PROVE  UNCHANGED Contents
<1>1. into \in Vars /\ into' = NoVar /\ todo = <<>> /\ todo' = <<>> /\ map' = map
  BY DEF MergeEnd, MapInv, MapTypes
<1>2. \A x \in Vars : Merged(map[x].pairs, todo) = map[x].pairs
  BY <1>1, PairsAreOk, MergedNone DEF PairsOk
<1>3. \A x \in Vars : Content(x) = ContentOf(map[x].pairs)
  BY <1>2 DEF Content
<1>4. \A x \in Vars : Content(x)' = ContentOf(map[x].pairs)
  BY <1>1, VarsAssumption DEF Content
<1> QED
  BY <1>3, <1>4 DEF Contents

LEMMA CallsAgree ==
  ASSUME ~DuplicateLiterals, MapInv
  PROVE  Agree
<1>1. ASSUME status' = "running", NEW x \in Vars, NEW k \in Keys, NEW v \in Values
      PROVE  /\ Remove(x, k) => Abstract!Remove(x, k)
             /\ Set(x, k, v) => Abstract!Set(x, k, v)
  BY <1>1, RemoveAgrees, SetAgrees
<1>2. ASSUME NEW x \in Vars, NEW y \in Vars
      PROVE  /\ MergeBegin(x, y) => Abstract!Merge(x, y)
             /\ Assign(x, y) => Abstract!Assign(x, y)
  BY MergeBeginAgrees, AssignAgrees
<1>3. ASSUME NEW x \in Vars
      PROVE  (Clear(x) => Abstract!Clear(x)) /\ (Shrink(x) => UNCHANGED Contents)
  BY ClearAgrees, ShrinkMoves
<1>4. ASSUME NEW x \in Vars, NEW n \in 0..MaxLen
      PROVE  Reserve(x, n) => UNCHANGED Contents
  BY ReserveMoves, SizeAssumption
<1>5. MergeStep \/ MergeEnd => UNCHANGED Contents
  BY MergeStepStays, MergeEndStays
<1>6. ASSUME NEW x \in Vars, NEW k \in Keys
      PROVE  Remove(x, k) => Abstract!Remove(x, k)
  BY RemoveAgrees
<1> QED
  BY <1>1, <1>2, <1>3, <1>4, <1>5, <1>6 DEF Agree

(* While literals do not repeat a key, every call that returns does what   *)
(* the operation of its name promises, whatever the keys and values and    *)
(* however long the maps: the loops of _set, _remove and _merge, step by   *)
(* step, against one update of a function and of the list of its keys.     *)
THEOREM OperationsAgreeHold ==
  ASSUME ~DuplicateLiterals
  PROVE  Spec => OperationsAgree
<1>1. MapInv /\ [Next]_vars => [Agree]_vars
  BY CallsAgree
<1> QED
  BY <1>1, MapInvHolds, PTL DEF Spec, OperationsAgree

LEMMA LiteralOfNone ==
  /\ <<>> \in Seq(Pairs) /\ Keyed(<<>>) = <<>> /\ Valued(<<>>) = <<>>
<1>1. DOMAIN <<>> = {}
  OBVIOUS
<1> QED
  BY <1>1, EmptySeq DEF Keyed, Valued

LEMMA StepIsPromised ==
  ASSUME ~DuplicateLiterals, MapInv, [Next]_vars
  PROVE  [Abstract!Next]_Contents
<1>1. ASSUME NEW x \in Vars, Literal(x, <<>>) PROVE Abstract!Next
  <2>1. Abstract!Literal(x, Keyed(<<>>), Valued(<<>>))
    BY <1>1, LiteralOfNone, LiteralAgrees
  <2>2. Abstract!Literal(x, <<>>, <<>>)
    BY <2>1, LiteralOfNone
  <2> QED
    BY <2>2 DEF Abstract!Next
<1>2. ASSUME NEW x \in Vars, NEW p \in Pairs, Literal(x, <<p>>) PROVE Abstract!Next
  <2>1. Abstract!Literal(x, Keyed(<<p>>), Valued(<<p>>))
    BY <1>2, LiteralOfOne, LiteralAgrees
  <2>2. Abstract!Literal(x, <<p.f>>, <<p.s>>)
    BY <2>1, LiteralOfOne
  <2>3. p.f \in Keys /\ p.s \in Values
    BY DEF Pairs
  <2> QED
    BY <2>2, <2>3 DEF Abstract!Next
<1>3. ASSUME NEW x \in Vars, NEW p \in Pairs, NEW q \in Pairs, Literal(x, <<p, q>>)
      PROVE  Abstract!Next
  <2>1. /\ Abstract!Literal(x, Keyed(<<p, q>>), Valued(<<p, q>>))
        /\ Distinct(<<p, q>>)
    BY <1>3, LiteralOfTwo, LiteralAgrees
  <2>2. Abstract!Literal(x, <<p.f, q.f>>, <<p.s, q.s>>) /\ p.f # q.f
    BY <2>1, LiteralOfTwo
  <2>3. p.f \in Keys /\ p.s \in Values /\ q.f \in Keys /\ q.s \in Values
    BY DEF Pairs
  <2> QED
    BY <2>2, <2>3 DEF Abstract!Next
<1>4. ASSUME NEW x \in Vars, NEW y \in Vars, Assign(x, y) \/ MergeBegin(x, y)
      PROVE  Abstract!Next
  BY <1>4, AssignAgrees, MergeBeginAgrees DEF Abstract!Next
<1>5. ASSUME NEW x \in Vars, NEW k \in Keys, Remove(x, k) PROVE Abstract!Next
  BY <1>5, RemoveAgrees DEF Abstract!Next
<1>6. ASSUME NEW x \in Vars, NEW k \in Keys, NEW v \in Values, Set(x, k, v)
      PROVE  [Abstract!Next]_Contents
  <2>1. CASE status' = "running"
    BY <1>6, <2>1, SetAgrees DEF Abstract!Next
  <2>2. CASE status' # "running"
    <3>1. UNCHANGED <<map, into, todo>>
      BY <1>6, <2>2 DEF Set, Idle
    <3> QED
      BY <3>1, ContentsStay
  <2> QED
    BY <2>1, <2>2
<1>7. ASSUME NEW x \in Vars, NEW n \in -1..MaxLen, Reserve(x, n) PROVE UNCHANGED Contents
  BY <1>7, ReserveMoves, SizeAssumption
<1>8. ASSUME NEW x \in Vars, Shrink(x) PROVE UNCHANGED Contents
  BY <1>8, ShrinkMoves
<1>9. ASSUME NEW x \in Vars, Clear(x) PROVE Abstract!Next
  BY <1>9, ClearAgrees DEF Abstract!Next
<1>10. ASSUME MergeStep \/ MergeEnd PROVE UNCHANGED Contents
  BY <1>10, MergeStepStays, MergeEndStays
<1>11. CASE UNCHANGED vars
  BY <1>11, ContentsStay DEF vars
<1>12. CASE Next
  BY <1>1, <1>2, <1>3, <1>4, <1>5, <1>6, <1>7, <1>8, <1>9, <1>10, <1>12 DEF Next
<1> QED
  BY <1>11, <1>12

LEMMA InitIsPromised == Init => Abstract!Init
<1> SUFFICES ASSUME Init PROVE Abstract!Init
  OBVIOUS
<1>1. \A x \in Vars : map[x].pairs = <<>> /\ x # into
  BY VarsAssumption DEF Init, Fresh
<1>2. \A x \in Vars : Content(x) = Abstract!Empty
  BY <1>1, EmptyContent DEF Content
<1> QED
  BY <1>2 DEF Abstract!Init, Contents

(* For any variables, keys, values and bounds: while literals do not       *)
(* repeat a key, the arrays of pairs that the compiler generates implement *)
(* maps that remember the order of their keys.                             *)
THEOREM ImplementsKeyedMapHolds ==
  ASSUME ~DuplicateLiterals
  PROVE  Spec => ImplementsKeyedMap
<1>1. Init => Abstract!Init
  BY InitIsPromised
<1>2. MapInv /\ [Next]_vars => [Abstract!Next]_Contents
  BY StepIsPromised
<1> QED
  BY <1>1, <1>2, MapInvHolds, PTL DEF Spec, ImplementsKeyedMap, Abstract!Spec
=============================================================================
