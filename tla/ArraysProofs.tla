---------------------------- MODULE ArraysProofs ----------------------------
(***************************************************************************)
(* For any literals, indexes, comparators and predicates: every element of *)
(* an array owns memory of its own, whatever is called and called back;    *)
(* every method answers and does what the list of src/api/arr does, the    *)
(* refinement of ArrayList step by step; and _sort sorts stably.           *)
(***************************************************************************)
EXTENDS ArraysInv, SequenceTheorems, FiniteSetTheorems, IntervalLemmas

-----------------------------------------------------------------------------
(* Fresh memory. *)

Available(h) == Memory \ h.own

LEMMA NthFreeIs ==
  ASSUME NEW h, NEW n \in 1..Cardinality(Available(h))
  PROVE  /\ NthFree(h, n) \in Available(h)
         /\ Cardinality({k \in Available(h) : k < NthFree(h, n)}) = n - 1
<1>1. Available(h) \in SUBSET Nat /\ IsFiniteSet(Available(h))
  BY MemoryAssumption, FS_Subset DEF Available
<1>2. \E m \in Available(h) : Cardinality({k \in Available(h) : k < m}) = n - 1
  BY <1>1, NthMember
<1> QED BY <1>2 DEF NthFree, Available

(* Memory is left for n more elements. *)
Room(h, n) == Cardinality(h.own) + n <= Cardinality(Memory)

LEMMA MemoryIsFinite == Cardinality(Memory) \in Nat
BY MemoryAssumption, FS_CardinalityType

LEMMA AvailableCount ==
  ASSUME NEW h \in HeapT
  PROVE  /\ IsFiniteSet(h.own) /\ Cardinality(h.own) \in Nat
         /\ Cardinality(Available(h)) = Cardinality(Memory) - Cardinality(h.own)
<1>1. h.own \in SUBSET Memory
  BY DEF HeapT
<1>2. IsFiniteSet(h.own) /\ Cardinality(h.own) \in Nat
  BY <1>1, MemoryAssumption, FS_Subset, FS_CardinalityType
<1>3. IsFiniteSet(Available(h)) /\ Cardinality(Available(h)) \in Nat
  BY MemoryAssumption, FS_Subset, FS_CardinalityType DEF Available
<1>4. Cardinality(h.own \cup Available(h))
      = Cardinality(h.own) + Cardinality(Available(h)) - Cardinality(h.own \cap Available(h))
  BY <1>2, <1>3, FS_Union
<1>5. h.own \cup Available(h) = Memory /\ h.own \cap Available(h) = {}
  BY <1>1 DEF Available
<1> QED BY <1>2, <1>3, <1>4, <1>5, FS_EmptySet, MemoryIsFinite

(* The elements that are made own memory that no element owned before. *)
LEMMA CellsAreFresh ==
  ASSUME NEW h \in HeapT, NEW ks \in Seq(Keys), Room(h, Len(ks))
  PROVE  LET cells == Cells(h, ks) IN
         /\ cells \in Seq(CellT) /\ Len(cells) = Len(ks) /\ DOMAIN cells = 1..Len(ks)
         /\ \A i \in 1..Len(ks) : cells[i].key = ks[i] /\ cells[i].own \in Available(h)
         /\ Apart(cells)
<1> DEFINE cells == Cells(h, ks)
<1>1. Len(ks) \in Nat /\ DOMAIN ks = 1..Len(ks) /\ \A i \in 1..Len(ks) : ks[i] \in Keys
  BY LenProperties, ElementOfSeq
<1>2. ASSUME NEW i \in 1..Len(ks)
      PROVE  /\ NthFree(h, i) \in Available(h)
             /\ Cardinality({k \in Available(h) : k < NthFree(h, i)}) = i - 1
  <2>1. i \in 1..Cardinality(Available(h))
    BY <1>1, AvailableCount, MemoryIsFinite DEF Room
  <2> QED BY <2>1, NthFreeIs
<1>3. cells = [i \in 1..Len(ks) |-> [key |-> ks[i], own |-> NthFree(h, i)]]
  BY <1>1 DEF Cells
<1>4. cells \in [1..Len(ks) -> CellT]
  <2>1. ASSUME NEW i \in 1..Len(ks)
        PROVE  [key |-> ks[i], own |-> NthFree(h, i)] \in CellT
    BY <1>1, <1>2 DEF CellT, Available
  <2> QED BY <1>3, <2>1
<1>5. cells \in Seq(CellT) /\ Len(cells) = Len(ks) /\ DOMAIN cells = 1..Len(ks)
  BY <1>1, <1>4, IsSequence
<1>6. \A i \in 1..Len(ks) : cells[i].key = ks[i] /\ cells[i].own = NthFree(h, i)
  BY <1>3
<1>7. ASSUME NEW i \in 1..Len(ks), NEW j \in 1..Len(ks), NthFree(h, i) = NthFree(h, j)
      PROVE  i = j
  <2>1. i - 1 = j - 1
    BY <1>2, <1>7
  <2> QED BY <1>1, <2>1
<1>8. Apart(cells)
  <2> HIDE DEF cells
  <2>1. ASSUME NEW i \in 1..Len(ks), NEW j \in 1..Len(ks), cells[i].own = cells[j].own
        PROVE  i = j
    <3>1. NthFree(h, i) = NthFree(h, j)
      BY <1>6, <2>1
    <3> QED BY <1>7, <3>1
  <2> QED BY <1>5, <2>1 DEF Apart
<1> QED BY <1>2, <1>5, <1>6, <1>8

-----------------------------------------------------------------------------
LEMMA GoodCells ==
  ASSUME NEW a, Good(a)
  PROVE  /\ a.l \in Nat /\ DOMAIN a.cells = 1..a.l
         /\ \A i \in 1..a.l : a.cells[i] \in CellT
         /\ \A i, j \in 1..a.l : a.cells[i].own = a.cells[j].own => i = j
         /\ OwnOf(a) \in SUBSET Memory
         /\ BlockOf(a) \in 0..1
<1>1. a.cells \in Seq(CellT) /\ a.l \in Nat /\ Len(a.cells) = a.l /\ a.null \in BOOLEAN
  BY DEF Good
<1>2. DOMAIN a.cells = 1..a.l /\ \A i \in 1..a.l : a.cells[i] \in CellT
  BY <1>1, LenProperties, ElementOfSeq
<1>3. \A i, j \in 1..a.l : a.cells[i].own = a.cells[j].own => i = j
  BY <1>2 DEF Good, Apart
<1>4. \A i \in 1..a.l : a.cells[i].own \in Memory
  BY <1>2 DEF CellT
<1> QED BY <1>1, <1>2, <1>3, <1>4 DEF OwnOf, BlockOf

LEMMA OwnCount ==
  ASSUME NEW a, Good(a)
  PROVE  IsFiniteSet(OwnOf(a)) /\ Cardinality(OwnOf(a)) = a.l
<1> DEFINE f == [i \in 1..a.l |-> a.cells[i].own]
<1>1. a.l \in Nat /\ \A i, j \in 1..a.l : a.cells[i].own = a.cells[j].own => i = j
  BY GoodCells
<1>2. f \in Bijection(1..a.l, OwnOf(a))
  <2>1. f \in Injection(1..a.l, OwnOf(a))
    BY <1>1 DEF Injection, IsInjective, OwnOf
  <2>2. f \in Surjection(1..a.l, OwnOf(a))
    <3>1. f \in [1..a.l -> OwnOf(a)]
      BY DEF OwnOf
    <3>2. ASSUME NEW m \in OwnOf(a) PROVE \E i \in 1..a.l : f[i] = m
      BY DEF OwnOf
    <3> HIDE DEF f
    <3> QED BY <3>1, <3>2 DEF Surjection
  <2> QED BY <2>1, <2>2 DEF Bijection
<1>3. ExistsBijection(1..a.l, OwnOf(a))
  BY <1>2 DEF ExistsBijection
<1> HIDE DEF f
<1>4. IsFiniteSet(1..a.l) /\ Cardinality(1..a.l) = a.l
  <2>1. PICK n \in Nat : n = a.l
    BY <1>1
  <2>2. IsFiniteSet(1..n) /\ Cardinality(1..n) = IF 1 > n THEN 0 ELSE n - 1 + 1
    BY FS_Interval
  <2> QED BY <2>1, <2>2
<1> QED BY <1>3, <1>4, FS_Bijection

LEMMA NullIsGood == Good(NullArray) /\ OwnOf(NullArray) = {} /\ BlockOf(NullArray) = 0
<1>1. <<>> \in Seq(CellT) /\ Len(<<>>) = 0 /\ DOMAIN <<>> = {}
  BY EmptySeq
<1>2. NullArray.null = TRUE /\ NullArray.l = 0 /\ NullArray.cells = <<>>
  BY DEF NullArray
<1>3. 1..0 = {}
  OBVIOUS
<1> QED BY <1>1, <1>2, <1>3 DEF Good, OwnOf, BlockOf, NullArray, Apart

LEMMA WithIsHeap ==
  ASSUME NEW h \in HeapT, NEW a, Fresh(h, a)
  PROVE  /\ With(h, a) \in HeapT
         /\ Cardinality(With(h, a).own) = Cardinality(h.own) + a.l
<1>1. OwnOf(a) \in SUBSET Memory /\ BlockOf(a) \in Int
  BY GoodCells DEF Fresh
<1>2. IsFiniteSet(OwnOf(a)) /\ Cardinality(OwnOf(a)) = a.l /\ a.l \in Nat
  BY OwnCount, GoodCells DEF Fresh
<1>3. IsFiniteSet(h.own) /\ Cardinality(h.own) \in Nat
  BY AvailableCount
<1>4. Cardinality(h.own \cup OwnOf(a)) = Cardinality(h.own) + Cardinality(OwnOf(a)) - Cardinality(h.own \cap OwnOf(a))
  BY <1>2, <1>3, FS_Union
<1>5. h.own \cap OwnOf(a) = {}
  BY DEF Fresh
<1>6. Cardinality(h.own \cup OwnOf(a)) = Cardinality(h.own) + a.l
  <2>1. Cardinality(h.own \cap OwnOf(a)) = 0
    BY <1>5, FS_EmptySet, Zenon
  <2> QED BY <1>2, <1>3, <1>4, <2>1
<1>7. h.own \cup OwnOf(a) \in SUBSET Memory /\ h.blocks + BlockOf(a) \in Int
      /\ h.bad \in BOOLEAN /\ h.lost \in BOOLEAN
  BY <1>1 DEF HeapT
<1>8. With(h, a) \in HeapT /\ With(h, a).own = h.own \cup OwnOf(a)
  BY <1>7 DEF With, HeapT
<1> QED BY <1>6, <1>8

(* The order in which arrays are added is of no account. *)
LEMMA WithCommutes ==
  ASSUME NEW h \in HeapT, NEW a, NEW b, Fresh(h, a), Fresh(With(h, a), b)
  PROVE  /\ Fresh(h, b) /\ Fresh(With(h, b), a)
         /\ With(With(h, a), b) = With(With(h, b), a)
<1>1. BlockOf(a) \in Int /\ BlockOf(b) \in Int /\ h.blocks \in Int
  BY GoodCells DEF Fresh, HeapT
<1>2. OwnOf(a) \cap h.own = {} /\ OwnOf(b) \cap (h.own \cup OwnOf(a)) = {} /\ Good(a) /\ Good(b)
  BY DEF Fresh, With
<1>3. (h.blocks + BlockOf(a)) + BlockOf(b) = (h.blocks + BlockOf(b)) + BlockOf(a)
  BY <1>1
<1>4. (h.own \cup OwnOf(a)) \cup OwnOf(b) = (h.own \cup OwnOf(b)) \cup OwnOf(a)
  OBVIOUS
<1> QED BY <1>2, <1>3, <1>4 DEF Fresh, With

LEMMA SameHeap ==
  ASSUME NEW g \in HeapT, NEW h \in HeapT,
         g.own = h.own, g.blocks = h.blocks, g.bad = h.bad, g.lost = h.lost
  PROVE  g = h
BY DEF HeapT

(* To free an array undoes what its making did to the heap. *)
LEMMA FreedUndoes ==
  ASSUME NEW h \in HeapT, NEW a, Fresh(h, a)
  PROVE  Freed(With(h, a), a) = h
<1> DEFINE w == With(h, a)
           bad == w.bad \/ ~OwnOf(a) \subseteq w.own \/ Cardinality(OwnOf(a)) # a.l
<1>1. BlockOf(a) \in Int /\ Cardinality(OwnOf(a)) = a.l
  BY GoodCells, OwnCount DEF Fresh
<1>2. /\ w \in HeapT /\ w.own = h.own \cup OwnOf(a) /\ w.blocks = h.blocks + BlockOf(a)
      /\ w.bad = h.bad /\ w.lost = h.lost
  BY WithIsHeap DEF With
<1>3. w.own \ OwnOf(a) = h.own
  BY <1>2 DEF Fresh
<1>4. w.blocks - BlockOf(a) = h.blocks
  BY <1>1, <1>2 DEF HeapT
<1>5. bad = h.bad
  <2>1. OwnOf(a) \subseteq w.own /\ h.bad \in BOOLEAN
    BY <1>2 DEF HeapT
  <2> HIDE DEF w
  <2> QED BY <1>1, <1>2, <2>1
<1>6. h.own \in SUBSET Memory /\ h.blocks \in Int /\ h.bad \in BOOLEAN
  BY DEF HeapT
<1>7. Freed(w, a) = [w EXCEPT !.own = w.own \ OwnOf(a), !.blocks = w.blocks - BlockOf(a), !.bad = bad]
  <2> HIDE DEF w
  <2> QED BY DEF Freed
<1> HIDE DEF w, bad
<1>8. Freed(w, a) = [w EXCEPT !.own = h.own, !.blocks = h.blocks, !.bad = h.bad]
  BY <1>3, <1>4, <1>5, <1>7
<1>9. /\ Freed(w, a) \in HeapT /\ Freed(w, a).own = h.own /\ Freed(w, a).blocks = h.blocks
      /\ Freed(w, a).bad = h.bad /\ Freed(w, a).lost = w.lost
  <2> DEFINE g == [w EXCEPT !.own = h.own, !.blocks = h.blocks, !.bad = h.bad]
  <2>1. g \in HeapT /\ g.own = h.own /\ g.blocks = h.blocks /\ g.bad = h.bad /\ g.lost = w.lost
    BY <1>2, <1>6 DEF HeapT
  <2>2. Freed(w, a) = g
    BY <1>8
  <2> HIDE DEF g
  <2> QED BY <2>1, <2>2
<1>10. Freed(w, a) = h
  BY <1>2, <1>9, SameHeap
<1> QED BY <1>10 DEF w

-----------------------------------------------------------------------------
(* What is made of a heap h: an array a that holds ks, in memory that was  *)
(* not h's.                                                                *)
Yields(h, m, ks) ==
  /\ m.h = With(h, m.a) /\ Fresh(h, m.a)
  /\ m.a.l = Len(ks) /\ KeysOf(m.a) = ks

LEMMA KeysAre ==
  ASSUME NEW a, Good(a)
  PROVE  /\ KeysOf(a) \in Seq(Keys) /\ Len(KeysOf(a)) = a.l
         /\ \A i \in 1..a.l : KeysOf(a)[i] = a.cells[i].key
<1>1. a.l \in Nat /\ \A i \in 1..a.l : a.cells[i] \in CellT
  BY GoodCells
<1>2. KeysOf(a) \in [1..a.l -> Keys]
  BY <1>1 DEF KeysOf, CellT
<1> QED BY <1>1, <1>2, IsSequence DEF KeysOf

(* An array of a given block and cells, and what it holds. *)
LEMMA ArrayOf ==
  ASSUME NEW cells \in Seq(CellT), Apart(cells), NEW ks \in Seq(Keys), Len(ks) = Len(cells),
         \A i \in 1..Len(ks) : cells[i].key = ks[i],
         NEW a, a = [null |-> FALSE, cells |-> cells, l |-> Len(ks)]
  PROVE  /\ Good(a) /\ a.l = Len(ks) /\ KeysOf(a) = ks /\ BlockOf(a) = 1
         /\ OwnOf(a) = {cells[i].own : i \in 1..Len(ks)}
<1>1. Len(ks) \in Nat /\ ks \in [1..Len(ks) -> Keys]
  BY LenProperties
<1>2. Good(a) /\ a.l = Len(ks) /\ a.cells = cells /\ a.null = FALSE
  BY <1>1 DEF Good
<1>3. KeysOf(a) = ks
  BY <1>1, <1>2 DEF KeysOf
<1> QED BY <1>2, <1>3 DEF BlockOf, OwnOf

LEMMA MadeIs ==
  ASSUME NEW h \in HeapT, NEW ks \in Seq(Keys), Room(h, Len(ks))
  PROVE  Yields(h, Made(h, ks), ks) /\ Made(h, ks).a.null = FALSE
<1> DEFINE cells == Cells(h, ks)
           m == Made(h, ks)
           own == {cells[i].own : i \in DOMAIN cells}
<1>1. /\ cells \in Seq(CellT) /\ Len(cells) = Len(ks) /\ DOMAIN cells = 1..Len(ks)
      /\ \A i \in 1..Len(ks) : cells[i].key = ks[i] /\ cells[i].own \in Available(h)
      /\ Apart(cells)
  BY CellsAreFresh
<1>2. /\ m.a = [null |-> FALSE, cells |-> cells, l |-> Len(ks)]
      /\ m.h = [h EXCEPT !.own = h.own \cup own, !.blocks = h.blocks + 1]
  BY DEF Made
<1> HIDE DEF cells, m
<1>3. /\ Good(m.a) /\ m.a.l = Len(ks) /\ KeysOf(m.a) = ks /\ BlockOf(m.a) = 1
      /\ OwnOf(m.a) = {cells[i].own : i \in 1..Len(ks)} /\ m.a.null = FALSE
  BY <1>1, <1>2, ArrayOf
<1>4. own = OwnOf(m.a)
  BY <1>1, <1>3
<1>5. OwnOf(m.a) \cap h.own = {} /\ OwnOf(m.a) \in SUBSET Memory
  BY <1>1, <1>3 DEF Available
<1>6. Fresh(h, m.a)
  BY <1>3, <1>5 DEF Fresh
<1> HIDE DEF own
<1>7. m.h \in HeapT /\ m.h.own = h.own \cup own /\ m.h.blocks = h.blocks + 1 /\ m.h.bad = h.bad /\ m.h.lost = h.lost
  <2>1. h.own \cup own \in SUBSET Memory /\ h.blocks + 1 \in Int
    BY <1>4, <1>5 DEF HeapT
  <2>2. PICK o \in SUBSET Memory, b \in Int : o = h.own \cup own /\ b = h.blocks + 1
    BY <2>1
  <2>3. m.h = [h EXCEPT !.own = o, !.blocks = b]
    BY <1>2, <2>2
  <2> QED BY <2>2, <2>3 DEF HeapT
<1>8. m.h = With(h, m.a)
  <2>1. With(h, m.a) \in HeapT
    BY <1>6, WithIsHeap
  <2>2. /\ With(h, m.a).own = h.own \cup own /\ With(h, m.a).blocks = h.blocks + 1
        /\ With(h, m.a).bad = h.bad /\ With(h, m.a).lost = h.lost
    BY <1>3, <1>4 DEF With
  <2> QED BY <1>7, <2>1, <2>2, SameHeap
<1>9. Yields(h, m, ks) /\ m.a.null = FALSE
  BY <1>3, <1>6, <1>8 DEF Yields
<1> QED BY <1>9 DEF m

LEMMA WithNull ==
  ASSUME NEW h \in HeapT
  PROVE  With(h, NullArray) = h /\ Fresh(h, NullArray)
BY NullIsGood DEF With, Fresh, HeapT

LEMMA NullYields ==
  ASSUME NEW h \in HeapT
  PROVE  Yields(h, [h |-> h, a |-> NullArray], <<>>)
<1>1. NullArray.l = 0 /\ Len(<<>>) = 0 /\ KeysOf(NullArray) = <<>>
  <2>1. NullArray.l = 0
    BY DEF NullArray
  <2>2. KeysOf(NullArray) \in Seq(Keys) /\ Len(KeysOf(NullArray)) = 0
    BY <2>1, NullIsGood, KeysAre
  <2> QED BY <2>1, <2>2, EmptySeq
<1> QED BY <1>1, WithNull DEF Yields

LEMMA AllocIs ==
  ASSUME NEW h \in HeapT, NEW ks \in Seq(Keys), Room(h, Len(ks))
  PROVE  Yields(h, Alloc(h, ks), ks)
<1>1. CASE ks = <<>>
  BY <1>1, NullYields DEF Alloc
<1>2. CASE ks # <<>>
  BY <1>2, MadeIs DEF Alloc
<1> QED BY <1>1, <1>2

LEMMA CopyIs ==
  ASSUME NEW h \in HeapT, NEW a, Good(a), Room(h, a.l)
  PROVE  Yields(h, Copy(h, a), KeysOf(a))
<1>1. KeysOf(a) \in Seq(Keys) /\ Len(KeysOf(a)) = a.l
  BY KeysAre
<1>2. CASE a.l = 0
  <2>1. KeysOf(a) = <<>>
    BY <1>1, <1>2, EmptySeq
  <2> QED BY <1>2, <2>1, NullYields DEF Copy
<1>3. CASE a.l # 0
  BY <1>1, <1>3, MadeIs DEF Copy
<1> QED BY <1>2, <1>3

-----------------------------------------------------------------------------
(* The methods that change an array a of a heap that is H but for a.       *)

LEMMA ClearedIs ==
  ASSUME NEW H \in HeapT, NEW a, Fresh(H, a)
  PROVE  Yields(H, Cleared(With(H, a), a), <<>>)
BY FreedUndoes, NullYields DEF Cleared

LEMMA ReplacedIs ==
  ASSUME NEW H \in HeapT, NEW a, Fresh(H, a), NEW ks \in Seq(Keys), Room(With(H, a), Len(ks))
  PROVE  Yields(H, Replaced(With(H, a), a, ks), ks)
<1> DEFINE m == Alloc(With(H, a), ks)
<1>1. With(H, a) \in HeapT
  BY WithIsHeap
<1>2. m.h = With(With(H, a), m.a) /\ Fresh(With(H, a), m.a) /\ m.a.l = Len(ks) /\ KeysOf(m.a) = ks
  <2> HIDE DEF m
  <2>1. Yields(With(H, a), m, ks)
    BY <1>1, AllocIs DEF m
  <2> QED BY <2>1 DEF Yields
<1>3. Replaced(With(H, a), a, ks) = [h |-> Freed(m.h, a), a |-> m.a]
  BY DEF Replaced
<1> HIDE DEF m
<1>4. Fresh(H, m.a) /\ Fresh(With(H, m.a), a) /\ m.h = With(With(H, m.a), a) /\ With(H, m.a) \in HeapT
  BY <1>2, WithCommutes, WithIsHeap
<1>5. Freed(m.h, a) = With(H, m.a)
  BY <1>4, FreedUndoes
<1> QED BY <1>2, <1>3, <1>4, <1>5 DEF Yields

(* Sequences behind one another. *)
LEMMA ConcatIs ==
  ASSUME NEW S, NEW s \in Seq(S), NEW t \in Seq(S)
  PROVE  /\ s \o t \in Seq(S) /\ Len(s \o t) = Len(s) + Len(t)
         /\ \A i \in 1..Len(s) : (s \o t)[i] = s[i]
         /\ \A i \in 1..Len(t) : (s \o t)[Len(s) + i] = t[i]
<1>1. Len(s) \in Nat /\ Len(t) \in Nat
  BY LenProperties
<1>2. /\ s \o t \in Seq(S) /\ Len(s \o t) = Len(s) + Len(t)
      /\ \A i \in 1..Len(s) + Len(t) : (s \o t)[i] = IF i <= Len(s) THEN s[i] ELSE t[i - Len(s)]
  BY ConcatProperties
<1>3. ASSUME NEW i \in 1..Len(s) PROVE (s \o t)[i] = s[i]
  <2>1. i \in 1..Len(s) + Len(t) /\ i <= Len(s)
    BY <1>1
  <2> QED BY <1>2, <2>1
<1>4. ASSUME NEW i \in 1..Len(t) PROVE (s \o t)[Len(s) + i] = t[i]
  <2>1. Len(s) + i \in 1..Len(s) + Len(t) /\ ~ Len(s) + i <= Len(s) /\ (Len(s) + i) - Len(s) = i
    BY <1>1
  <2> QED BY <1>2, <2>1
<1> QED BY <1>2, <1>3, <1>4

LEMMA PlaceInConcat ==
  ASSUME NEW m \in Nat, NEW n \in Nat, NEW i \in 1..m + n
  PROVE  i \in 1..m \/ \E k \in 1..n : i = m + k
<1>1. i > m => i - m \in 1..n /\ i = m + (i - m)
  OBVIOUS
<1>2. i <= m => i \in 1..m
  OBVIOUS
<1> QED BY <1>1, <1>2

OwnIn(cells) == {cells[i].own : i \in DOMAIN cells}

LEMMA JoinedCells ==
  ASSUME NEW s \in Seq(CellT), NEW t \in Seq(CellT), Apart(s), Apart(t), OwnIn(s) \cap OwnIn(t) = {}
  PROVE  Apart(s \o t) /\ OwnIn(s \o t) = OwnIn(s) \cup OwnIn(t)
<1> DEFINE m == Len(s)
           n == Len(t)
           c == s \o t
<1>1. m \in Nat /\ n \in Nat /\ DOMAIN s = 1..m /\ DOMAIN t = 1..n
  BY LenProperties
<1>2. /\ c \in Seq(CellT) /\ Len(c) = m + n
      /\ \A i \in 1..m : c[i] = s[i]
      /\ \A i \in 1..n : c[m + i] = t[i]
  BY ConcatIs
<1>3. DOMAIN c = 1..m + n
  BY <1>2, LenProperties
<1> HIDE DEF m, n, c
<1>4. /\ \A i \in 1..m : i \in 1..m + n
      /\ \A i \in 1..n : m + i \in 1..m + n
  BY <1>1
<1>5. ASSUME NEW i \in 1..m + n
      PROVE  \/ i \in 1..m /\ c[i] = s[i]
             \/ \E k \in 1..n : i = m + k /\ c[i] = t[k]
  BY <1>1, <1>2, PlaceInConcat
<1>6. /\ \A i \in 1..m : s[i].own \in OwnIn(s)
      /\ \A i \in 1..n : t[i].own \in OwnIn(t)
  BY <1>1 DEF OwnIn
<1>7. ASSUME NEW i \in 1..m + n, NEW j \in 1..m + n, c[i].own = c[j].own PROVE i = j
  <2>1. CASE i \in 1..m /\ c[i] = s[i] /\ j \in 1..m /\ c[j] = s[j]
    BY <1>1, <1>7, <2>1 DEF Apart
  <2>2. CASE i \in 1..m /\ c[i] = s[i] /\ \E k \in 1..n : j = m + k /\ c[j] = t[k]
    BY <1>6, <1>7, <2>2
  <2>3. CASE j \in 1..m /\ c[j] = s[j] /\ \E k \in 1..n : i = m + k /\ c[i] = t[k]
    BY <1>6, <1>7, <2>3
  <2>4. ASSUME NEW k \in 1..n, i = m + k, c[i] = t[k], NEW q \in 1..n, j = m + q, c[j] = t[q]
        PROVE  i = j
    <3>1. k = q
      BY <1>1, <1>7, <2>4 DEF Apart
    <3> QED BY <2>4, <3>1
  <2> QED BY <1>5, <2>1, <2>2, <2>3, <2>4
<1>8. OwnIn(c) = OwnIn(s) \cup OwnIn(t)
  <2>1. ASSUME NEW x \in OwnIn(c) PROVE x \in OwnIn(s) \cup OwnIn(t)
    <3>1. PICK i \in 1..m + n : x = c[i].own
      BY <1>3 DEF OwnIn
    <3> QED BY <1>5, <1>6, <3>1
  <2>2. ASSUME NEW x \in OwnIn(s) PROVE x \in OwnIn(c)
    <3>1. PICK i \in 1..m : x = s[i].own
      BY <1>1 DEF OwnIn
    <3> QED BY <1>2, <1>3, <1>4, <3>1 DEF OwnIn
  <2>3. ASSUME NEW x \in OwnIn(t) PROVE x \in OwnIn(c)
    <3>1. PICK i \in 1..n : x = t[i].own
      BY <1>1 DEF OwnIn
    <3>2. x = c[m + i].own /\ m + i \in DOMAIN c
      BY <1>2, <1>3, <1>4, <3>1
    <3> QED BY <3>2 DEF OwnIn
  <2> QED BY <2>1, <2>2, <2>3
<1>9. Apart(c)
  BY <1>3, <1>7 DEF Apart
<1> QED BY <1>8, <1>9 DEF c

LEMMA OwnInCells ==
  ASSUME NEW a, Good(a)
  PROVE  OwnOf(a) = OwnIn(a.cells)
BY GoodCells DEF OwnOf, OwnIn

(* The elements of two arrays in one block. *)
LEMMA JoinedIs ==
  ASSUME NEW a, Good(a), NEW b, Good(b), OwnOf(a) \cap OwnOf(b) = {},
         NEW c, c = [null |-> FALSE, cells |-> a.cells \o b.cells, l |-> a.l + b.l]
  PROVE  /\ Good(c) /\ c.l = a.l + b.l /\ KeysOf(c) = KeysOf(a) \o KeysOf(b) /\ BlockOf(c) = 1
         /\ OwnOf(c) = OwnOf(a) \cup OwnOf(b)
<1> DEFINE cells == a.cells \o b.cells
           ks == KeysOf(a) \o KeysOf(b)
           m == a.l
           n == b.l
<1>1. /\ a.cells \in Seq(CellT) /\ Len(a.cells) = m /\ m \in Nat
      /\ b.cells \in Seq(CellT) /\ Len(b.cells) = n /\ n \in Nat
      /\ Apart(a.cells) /\ Apart(b.cells)
  BY DEF Good
<1>2. /\ cells \in Seq(CellT) /\ Len(cells) = m + n
      /\ \A i \in 1..m : cells[i] = a.cells[i]
      /\ \A i \in 1..n : cells[m + i] = b.cells[i]
  <2> HIDE DEF m, n
  <2>1. PICK s \in Seq(CellT), t \in Seq(CellT) : s = a.cells /\ t = b.cells
    BY <1>1
  <2>2. Len(s) = m /\ Len(t) = n /\ cells = s \o t
    BY <1>1, <2>1
  <2>3. /\ s \o t \in Seq(CellT) /\ Len(s \o t) = Len(s) + Len(t)
        /\ \A i \in 1..Len(s) : (s \o t)[i] = s[i]
        /\ \A i \in 1..Len(t) : (s \o t)[Len(s) + i] = t[i]
    BY ConcatIs
  <2> HIDE DEF cells
  <2> QED BY <2>1, <2>2, <2>3
<1>3. /\ KeysOf(a) \in Seq(Keys) /\ Len(KeysOf(a)) = m /\ KeysOf(b) \in Seq(Keys) /\ Len(KeysOf(b)) = n
      /\ \A i \in 1..m : KeysOf(a)[i] = a.cells[i].key
      /\ \A i \in 1..n : KeysOf(b)[i] = b.cells[i].key
  BY KeysAre
<1>4. /\ ks \in Seq(Keys) /\ Len(ks) = m + n
      /\ \A i \in 1..m : ks[i] = KeysOf(a)[i]
      /\ \A i \in 1..n : ks[m + i] = KeysOf(b)[i]
  <2> HIDE DEF m, n
  <2>1. PICK s \in Seq(Keys), t \in Seq(Keys) : s = KeysOf(a) /\ t = KeysOf(b)
    BY <1>3
  <2>2. Len(s) = m /\ Len(t) = n /\ ks = s \o t
    BY <1>3, <2>1
  <2> HIDE DEF ks
  <2> QED BY <2>1, <2>2, ConcatIs
<1>5. Apart(cells) /\ OwnIn(cells) = OwnOf(a) \cup OwnOf(b)
  BY <1>1, OwnInCells, JoinedCells
<1>6. c = [null |-> FALSE, cells |-> cells, l |-> Len(ks)]
  BY <1>4
<1> HIDE DEF cells, ks, m, n
<1>7. ASSUME NEW i \in 1..m + n PROVE cells[i].key = ks[i]
  <2>1. CASE i \in 1..m
    BY <1>2, <1>3, <1>4, <2>1
  <2>2. ASSUME NEW k \in 1..n, i = m + k PROVE cells[i].key = ks[i]
    BY <1>2, <1>3, <1>4, <2>2
  <2> QED BY <1>1, <2>1, <2>2, PlaceInConcat
<1>8. /\ Good(c) /\ c.l = Len(ks) /\ KeysOf(c) = ks /\ BlockOf(c) = 1
      /\ OwnOf(c) = {cells[i].own : i \in 1..Len(ks)}
  BY <1>2, <1>4, <1>5, <1>6, <1>7, ArrayOf
<1>9. OwnIn(cells) = {cells[i].own : i \in 1..Len(ks)}
  BY <1>2, <1>4, LenProperties DEF OwnIn
<1> QED BY <1>4, <1>5, <1>8, <1>9 DEF ks, m, n

LEMMA ElementsAre ==
  ASSUME NEW a, Good(a)
  PROVE  Elements(a) = a.cells
BY SubSeqFull DEF Good, Elements

(* The elements of b, which is in the heap too, join those of a. *)
LEMMA JoinedYields ==
  ASSUME NEW H \in HeapT, NEW a, Fresh(H, a), NEW b, Fresh(With(H, a), b),
         NEW c, c = [null |-> FALSE, cells |-> a.cells \o b.cells, l |-> a.l + b.l],
         NEW h \in HeapT, h.own = H.own \cup OwnOf(a) \cup OwnOf(b), h.blocks = H.blocks + 1,
         h.bad = H.bad, h.lost = H.lost,
         NEW r, r.h = h, r.a = c
  PROVE  Yields(H, r, KeysOf(a) \o KeysOf(b))
<1>1. /\ Good(a) /\ Good(b) /\ OwnOf(a) \cap OwnOf(b) = {}
      /\ OwnOf(a) \cap H.own = {} /\ OwnOf(b) \cap H.own = {}
  BY DEF Fresh, With
<1>2. /\ Good(c) /\ c.l = a.l + b.l /\ KeysOf(c) = KeysOf(a) \o KeysOf(b) /\ BlockOf(c) = 1
      /\ OwnOf(c) = OwnOf(a) \cup OwnOf(b)
  BY <1>1, JoinedIs
<1>3. Fresh(H, c)
  BY <1>1, <1>2 DEF Fresh
<1>4. With(H, c) \in HeapT
  BY <1>3, WithIsHeap
<1>5. /\ With(H, c).own = h.own /\ With(H, c).blocks = h.blocks
      /\ With(H, c).bad = h.bad /\ With(H, c).lost = h.lost
  BY <1>2 DEF With
<1>6. h = With(H, c)
  BY <1>4, <1>5, SameHeap
<1>7. Len(KeysOf(a) \o KeysOf(b)) = a.l + b.l
  <2>1. KeysOf(a) \in Seq(Keys) /\ Len(KeysOf(a)) = a.l /\ KeysOf(b) \in Seq(Keys) /\ Len(KeysOf(b)) = b.l
    BY <1>1, KeysAre
  <2> QED BY <2>1, ConcatIs
<1> QED BY <1>2, <1>3, <1>6, <1>7 DEF Yields

LEMMA PushedIs ==
  ASSUME NEW H \in HeapT, NEW a, Fresh(H, a), NEW ks \in Seq(Keys), Room(With(H, a), Len(ks))
  PROVE  Yields(H, Pushed(With(H, a), a, ks), KeysOf(a) \o ks)
<1> DEFINE w == With(H, a)
           m == Alloc(w, ks)
           g == Grown(m.h, a, a.l + m.a.l)
           c == [null |-> FALSE, cells |-> a.cells \o m.a.cells, l |-> a.l + m.a.l]
<1>1. w \in HeapT /\ Yields(w, m, ks)
  BY WithIsHeap, AllocIs
<1>2. Good(a) /\ BlockOf(a) \in Int /\ KeysOf(a) \in Seq(Keys) /\ Len(KeysOf(a)) = a.l
  BY GoodCells, KeysAre DEF Fresh
<1>3. CASE m.a.l = 0
  <2>1. ks = <<>> /\ KeysOf(a) \o ks = KeysOf(a)
    <3>1. Len(ks) = 0
      BY <1>1, <1>3 DEF Yields
    <3>2. ks = <<>>
      BY <3>1, EmptySeq
    <3> QED BY <1>2, <3>2, ConcatEmptySeq
  <2>2. Pushed(w, a, ks) = [h |-> w, a |-> a]
    BY <1>3 DEF Pushed
  <2> HIDE DEF w
  <2>3. Yields(H, [h |-> With(H, a), a |-> a], KeysOf(a))
    BY <1>2 DEF Yields
  <2> QED BY <2>1, <2>2, <2>3 DEF w
<1>4. CASE m.a.l # 0
  <2> DEFINE r == Pushed(w, a, ks)
             h == r.h
  <2>1. r = [h |-> [g.h EXCEPT !.blocks = g.h.blocks - 1], a |-> [g.a EXCEPT !.cells = g.a.cells \o m.a.cells]]
    <3> HIDE DEF w
    <3> QED BY <1>4 DEF Pushed
  <2>2. /\ g.h = [m.h EXCEPT !.blocks = m.h.blocks + 1 - BlockOf(a)]
        /\ g.a = [null |-> FALSE, cells |-> a.cells, l |-> a.l + m.a.l]
    <3> HIDE DEF m
    <3> QED BY <1>2, ElementsAre DEF Grown
  <2> HIDE DEF w, m, g, r
  <2>3. /\ m.h = With(w, m.a) /\ Fresh(w, m.a) /\ KeysOf(m.a) = ks /\ m.a.l = Len(ks)
    BY <1>1 DEF Yields
  <2>4. m.h \in HeapT
    BY <1>1, <2>3, WithIsHeap
  <2>5. BlockOf(m.a) = 1
    BY <1>4, <2>3 DEF Fresh, Good, BlockOf
  <2>6. /\ m.h.own = H.own \cup OwnOf(a) \cup OwnOf(m.a) /\ m.h.blocks = H.blocks + BlockOf(a) + 1
        /\ m.h.bad = H.bad /\ m.h.lost = H.lost
    BY <2>3, <2>5 DEF With, w
  <2>7. /\ g.h \in HeapT /\ g.h.own = m.h.own /\ g.h.blocks = m.h.blocks + 1 - BlockOf(a)
        /\ g.h.bad = m.h.bad /\ g.h.lost = m.h.lost
    <3>1. PICK b \in Int : b = m.h.blocks + 1 - BlockOf(a)
      BY <1>2, <2>4 DEF HeapT
    <3> QED BY <2>2, <2>4, <3>1 DEF HeapT
  <2>8. /\ h \in HeapT /\ h.own = g.h.own /\ h.blocks = g.h.blocks - 1
        /\ h.bad = g.h.bad /\ h.lost = g.h.lost
    <3>1. PICK b \in Int : b = g.h.blocks - 1
      BY <2>7 DEF HeapT
    <3> QED BY <2>1, <2>7, <3>1 DEF HeapT, h
  <2>9. h.blocks = H.blocks + 1
    BY <1>2, <2>6, <2>7, <2>8 DEF HeapT
  <2>10. r.a = c
    <3>1. r.a = [g.a EXCEPT !.cells = g.a.cells \o m.a.cells]
      BY <2>1
    <3>2. PICK x, y, z : x = a.cells /\ y = a.l + m.a.l /\ z = a.cells \o m.a.cells
      OBVIOUS
    <3>3. g.a = [null |-> FALSE, cells |-> x, l |-> y] /\ g.a.cells = x
      BY <2>2, <3>2
    <3>4. r.a = [[null |-> FALSE, cells |-> x, l |-> y] EXCEPT !.cells = z]
      BY <3>1, <3>2, <3>3
    <3>5. r.a = [null |-> FALSE, cells |-> z, l |-> y]
      BY <3>4
    <3> QED BY <3>2, <3>5
  <2>11. Fresh(With(H, a), m.a)
    BY <2>3 DEF w
  <2> HIDE DEF h, c
  <2>12. Yields(H, r, KeysOf(a) \o KeysOf(m.a))
    <3>1. h.own = H.own \cup OwnOf(a) \cup OwnOf(m.a) /\ h.bad = H.bad /\ h.lost = H.lost
      BY <2>6, <2>7, <2>8
    <3>2. r.h = h
      BY DEF h
    <3>3. c = [null |-> FALSE, cells |-> a.cells \o m.a.cells, l |-> a.l + m.a.l]
      BY DEF c
    <3> QED BY <2>8, <2>9, <2>10, <2>11, <3>1, <3>2, <3>3, JoinedYields
  <2> QED BY <2>3, <2>12 DEF r, w
<1> QED BY <1>3, <1>4

LEMMA MergedIs ==
  ASSUME NEW H \in HeapT, NEW a, Fresh(H, a), NEW ks \in Seq(Keys), Room(With(H, a), Len(ks) + Len(ks))
  PROVE  Yields(H, Merged(With(H, a), a, ks), KeysOf(a) \o ks)
<1> DEFINE w == With(H, a)
           m == Alloc(w, ks)
           g == Grown(m.h, a, a.l + m.a.l)
           c == Cells(g.h, KeysOf(m.a))
           own == {c[i].own : i \in DOMAIN c}
           b == [null |-> FALSE, cells |-> c, l |-> Len(ks)]
           joined == [null |-> FALSE, cells |-> a.cells \o c, l |-> a.l + Len(ks)]
           h1 == [g.h EXCEPT !.own = g.h.own \cup own]
           r == Merged(w, a, ks)
<1>1. /\ w \in HeapT /\ Cardinality(w.own) \in Nat /\ Len(ks) \in Nat
      /\ Cardinality(w.own) + (Len(ks) + Len(ks)) <= Cardinality(Memory)
  <2>1. w \in HeapT
    BY WithIsHeap
  <2> QED BY <2>1, AvailableCount, LenProperties DEF Room
<1>2. Yields(w, m, ks)
  <2>1. Room(w, Len(ks))
    BY <1>1, MemoryIsFinite DEF Room
  <2> QED BY <1>1, <2>1, AllocIs
<1>3. Good(a) /\ BlockOf(a) \in Int /\ KeysOf(a) \in Seq(Keys) /\ Len(KeysOf(a)) = a.l /\ a.l \in Nat
  BY GoodCells, KeysAre DEF Fresh
<1>4. r = [h |-> Freed(h1, m.a), a |-> [g.a EXCEPT !.cells = g.a.cells \o c]]
  <2> HIDE DEF w
  <2> QED BY DEF Merged
<1>5. /\ g.h = [m.h EXCEPT !.blocks = m.h.blocks + 1 - BlockOf(a)]
      /\ g.a = [null |-> FALSE, cells |-> a.cells, l |-> a.l + m.a.l]
  <2> HIDE DEF m
  <2> QED BY <1>3, ElementsAre DEF Grown
<1>6. w.own = H.own \cup OwnOf(a) /\ w.blocks = H.blocks + BlockOf(a) /\ w.bad = H.bad /\ w.lost = H.lost
  BY DEF With
<1> HIDE DEF w, m, g, r
<1>7. /\ m.h = With(w, m.a) /\ Fresh(w, m.a) /\ KeysOf(m.a) = ks /\ m.a.l = Len(ks)
  BY <1>2 DEF Yields
<1>8. /\ m.h \in HeapT /\ Cardinality(m.h.own) = Cardinality(w.own) + Len(ks)
      /\ m.h.own = w.own \cup OwnOf(m.a) /\ m.h.blocks = w.blocks + BlockOf(m.a)
      /\ m.h.bad = w.bad /\ m.h.lost = w.lost /\ BlockOf(m.a) \in Int
  <2>1. m.h \in HeapT /\ Cardinality(m.h.own) = Cardinality(w.own) + Len(ks)
    BY <1>1, <1>7, WithIsHeap
  <2>2. BlockOf(m.a) \in Int
    BY <1>7, GoodCells DEF Fresh
  <2> QED BY <1>7, <2>1, <2>2 DEF With
<1>9. /\ g.h \in HeapT /\ g.h.own = m.h.own /\ g.h.blocks = m.h.blocks + 1 - BlockOf(a)
      /\ g.h.bad = m.h.bad /\ g.h.lost = m.h.lost
  <2>1. PICK x \in Int : x = m.h.blocks + 1 - BlockOf(a)
    BY <1>3, <1>8 DEF HeapT
  <2> QED BY <1>5, <1>8, <2>1 DEF HeapT
<1>10. Room(g.h, Len(ks))
  BY <1>1, <1>8, <1>9, MemoryIsFinite DEF Room
<1>11. /\ c \in Seq(CellT) /\ Len(c) = Len(ks) /\ DOMAIN c = 1..Len(ks) /\ Apart(c)
       /\ \A i \in 1..Len(ks) : c[i].key = ks[i] /\ c[i].own \in Available(g.h)
  <2>1. c = Cells(g.h, ks)
    BY <1>7
  <2> HIDE DEF c
  <2> QED BY <1>9, <1>10, <2>1, CellsAreFresh
<1> HIDE DEF c
<1>12. /\ Good(b) /\ b.l = Len(ks) /\ KeysOf(b) = ks /\ BlockOf(b) = 1 /\ OwnOf(b) = own
       /\ b.cells = c
  <2> HIDE DEF b
  <2>1. b = [null |-> FALSE, cells |-> c, l |-> Len(ks)] /\ b.cells = c
    BY DEF b
  <2>2. /\ Good(b) /\ b.l = Len(ks) /\ KeysOf(b) = ks /\ BlockOf(b) = 1
        /\ OwnOf(b) = {c[i].own : i \in 1..Len(ks)}
    BY <1>11, <2>1, ArrayOf
  <2> QED BY <1>11, <2>1, <2>2
<1>13. own \in SUBSET Memory /\ own \cap m.h.own = {}
  BY <1>9, <1>11 DEF Available
<1> HIDE DEF own, b
<1>14. /\ h1 \in HeapT /\ h1.own = m.h.own \cup own /\ h1.blocks = g.h.blocks
       /\ h1.bad = g.h.bad /\ h1.lost = g.h.lost
  <2>1. PICK x \in SUBSET Memory : x = g.h.own \cup own
    BY <1>9, <1>13 DEF HeapT
  <2> QED BY <1>9, <2>1 DEF HeapT
<1> HIDE DEF h1
<1>15. Fresh(w, b) /\ OwnOf(b) \cap OwnOf(m.a) = {}
  BY <1>8, <1>12, <1>13 DEF Fresh
<1> DEFINE hb == [own |-> H.own \cup OwnOf(a) \cup OwnOf(b), blocks |-> H.blocks + 1,
                  bad |-> H.bad, lost |-> H.lost]
<1>16. /\ hb \in HeapT /\ hb.own = H.own \cup OwnOf(a) \cup OwnOf(b) /\ hb.blocks = H.blocks + 1
       /\ hb.bad = H.bad /\ hb.lost = H.lost
  <2>1. H.own \cup OwnOf(a) \cup OwnOf(b) \in SUBSET Memory
    BY <1>1, <1>6, <1>12, <1>13 DEF HeapT
  <2> QED BY <2>1 DEF HeapT
<1> HIDE DEF hb
<1>17. joined = [null |-> FALSE, cells |-> a.cells \o b.cells, l |-> a.l + b.l]
  BY <1>12
<1> HIDE DEF joined
<1>18. Yields(H, [h |-> hb, a |-> joined], KeysOf(a) \o ks)
  <2>1. PICK y : y = [h |-> hb, a |-> joined]
    OBVIOUS
  <2>2. y.h = hb /\ y.a = joined
    BY <2>1
  <2>3. Fresh(With(H, a), b)
    BY <1>15 DEF w
  <2> QED BY <1>12, <1>16, <1>17, <2>1, <2>2, <2>3, JoinedYields
<1>19. Fresh(hb, m.a) /\ h1 = With(hb, m.a)
  <2>1. Fresh(hb, m.a)
    BY <1>6, <1>7, <1>15, <1>16 DEF Fresh
  <2>2. With(hb, m.a) \in HeapT
    BY <1>16, <2>1, WithIsHeap
  <2>3. /\ With(hb, m.a).own = hb.own \cup OwnOf(m.a) /\ With(hb, m.a).blocks = hb.blocks + BlockOf(m.a)
        /\ With(hb, m.a).bad = hb.bad /\ With(hb, m.a).lost = hb.lost
    BY DEF With
  <2>4. h1.own = hb.own \cup OwnOf(m.a)
    BY <1>6, <1>8, <1>12, <1>14, <1>16
  <2>5. h1.blocks = hb.blocks + BlockOf(m.a)
    BY <1>3, <1>6, <1>8, <1>9, <1>14, <1>16 DEF HeapT
  <2>6. h1.bad = hb.bad /\ h1.lost = hb.lost
    BY <1>6, <1>8, <1>9, <1>14, <1>16
  <2>7. h1 = With(hb, m.a)
    <3>1. PICK x \in HeapT : x = With(hb, m.a)
      BY <2>2
    <3>2. h1.own = x.own /\ h1.blocks = x.blocks /\ h1.bad = x.bad /\ h1.lost = x.lost
      BY <2>3, <2>4, <2>5, <2>6, <3>1
    <3>3. h1 = x
      BY <1>14, <3>2, SameHeap
    <3> QED BY <3>1, <3>3
  <2> QED BY <2>1, <2>7
<1>20. Freed(h1, m.a) = hb
  BY <1>16, <1>19, FreedUndoes
<1>21. r.h = hb
  BY <1>4, <1>20
<1>22. r.a = joined
  <2>1. r.a = [g.a EXCEPT !.cells = g.a.cells \o c]
    BY <1>4
  <2>2. PICK x, y, z : x = a.cells /\ y = a.l + Len(ks) /\ z = a.cells \o c
    OBVIOUS
  <2>3. g.a = [null |-> FALSE, cells |-> x, l |-> y] /\ g.a.cells = x
    BY <1>5, <1>7, <2>2
  <2>4. r.a = [[null |-> FALSE, cells |-> x, l |-> y] EXCEPT !.cells = z]
    BY <2>1, <2>2, <2>3
  <2>5. r.a = [null |-> FALSE, cells |-> z, l |-> y]
    BY <2>4
  <2> QED BY <2>2, <2>5 DEF joined
<1>23. Yields(H, r, KeysOf(a) \o ks)
  BY <1>18, <1>21, <1>22 DEF Yields
<1> QED BY <1>23 DEF r, w

LEMMA RemoveAtIs ==
  ASSUME NEW S, NEW s \in Seq(S), NEW i \in 1..Len(s)
  PROVE  /\ RemoveAt(s, i) \in Seq(S) /\ Len(RemoveAt(s, i)) = Len(s) - 1
         /\ \A j \in 1..Len(s) - 1 : RemoveAt(s, i)[j] = IF j < i THEN s[j] ELSE s[j + 1]
<1> DEFINE n == Len(s)
           u == SubSeq(s, 1, i - 1)
           v == SubSeq(s, i + 1, n)
<1>1. n \in Nat /\ i \in 1..n /\ \A k \in 1..n : s[k] \in S
  BY LenProperties, ElementOfSeq
<1> HIDE DEF n
<1>2. u \in Seq(S) /\ Len(u) = i - 1 /\ \A k \in 1..i - 1 : u[k] = s[k]
  <2>1. \A k \in 1..i - 1 : s[k] \in S
    BY <1>1
  <2>2. /\ u \in Seq(S) /\ Len(u) = IF 1 <= i - 1 THEN (i - 1) - 1 + 1 ELSE 0
        /\ \A k \in 1..(i - 1) - 1 + 1 : u[k] = s[1 + k - 1]
    BY <1>1, <2>1, SubSeqProperties
  <2>3. ASSUME NEW k \in 1..i - 1 PROVE u[k] = s[k]
    <3>1. k \in 1..(i - 1) - 1 + 1 /\ 1 + k - 1 = k
      BY <1>1
    <3> QED BY <2>2, <3>1
  <2> QED BY <1>1, <2>2, <2>3
<1>3. v \in Seq(S) /\ Len(v) = n - i /\ \A k \in 1..n - i : v[k] = s[i + k]
  <2>1. \A k \in i + 1..n : s[k] \in S
    BY <1>1
  <2>2. /\ v \in Seq(S) /\ Len(v) = IF i + 1 <= n THEN n - (i + 1) + 1 ELSE 0
        /\ \A k \in 1..n - (i + 1) + 1 : v[k] = s[(i + 1) + k - 1]
    BY <1>1, <2>1, SubSeqProperties
  <2>3. ASSUME NEW k \in 1..n - i PROVE v[k] = s[i + k]
    <3>1. k \in 1..n - (i + 1) + 1 /\ (i + 1) + k - 1 = i + k
      BY <1>1
    <3> QED BY <2>2, <3>1
  <2> QED BY <1>1, <2>2, <2>3
<1> HIDE DEF u, v
<1>4. RemoveAt(s, i) = u \o v
  BY DEF RemoveAt, u, v, n
<1>5. /\ u \o v \in Seq(S) /\ Len(u \o v) = Len(u) + Len(v)
      /\ \A k \in 1..Len(u) : (u \o v)[k] = u[k]
      /\ \A k \in 1..Len(v) : (u \o v)[Len(u) + k] = v[k]
  <2>1. u \in Seq(S) /\ v \in Seq(S)
    BY <1>2, <1>3
  <2> QED BY <2>1, ConcatIs
<1>6. ASSUME NEW j \in 1..n - 1 PROVE (u \o v)[j] = IF j < i THEN s[j] ELSE s[j + 1]
  <2>1. CASE j < i
    <3>1. j \in 1..i - 1
      BY <1>1, <2>1
    <3> QED BY <1>2, <1>5, <2>1, <3>1
  <2>2. CASE ~ j < i
    <3>1. PICK k \in 1..n - i : j = (i - 1) + k /\ i + k = j + 1
      <4>1. j - i + 1 \in 1..n - i /\ j = (i - 1) + (j - i + 1) /\ i + (j - i + 1) = j + 1
        BY <1>1, <2>2
      <4> QED BY <4>1
    <3>2. (u \o v)[(i - 1) + k] = v[k]
      BY <1>2, <1>3, <1>5, <3>1
    <3> QED BY <1>3, <2>2, <3>1, <3>2
  <2> QED BY <2>1, <2>2
<1>7. Len(u \o v) = n - 1
  BY <1>1, <1>2, <1>3, <1>5
<1> QED BY <1>4, <1>5, <1>6, <1>7 DEF n

LEMMA MovedIs ==
  ASSUME NEW a, Good(a), NEW i \in 1..a.l, NEW c, c = SubSeq(Moved(a.cells, i, a.l), 1, a.l - 1)
  PROVE  /\ c \in Seq(CellT) /\ Len(c) = a.l - 1
         /\ \A j \in 1..a.l - 1 : c[j] = IF j < i THEN a.cells[j] ELSE a.cells[j + 1]
<1> DEFINE n == a.l
           m == Moved(a.cells, i, n)
<1>1. n \in Nat /\ i \in 1..n /\ \A k \in 1..n : a.cells[k] \in CellT
  BY GoodCells
<1> HIDE DEF n
<1>2. \A j \in 1..n : m[j] = IF j \in i..n - 1 THEN a.cells[j + 1] ELSE a.cells[j]
  BY DEF Moved
<1> HIDE DEF m
<1>3. \A j \in 1..n - 1 : m[j] \in CellT
  BY <1>1, <1>2
<1>4. /\ c \in Seq(CellT) /\ Len(c) = IF 1 <= n - 1 THEN (n - 1) - 1 + 1 ELSE 0
      /\ \A j \in 1..(n - 1) - 1 + 1 : c[j] = m[1 + j - 1]
  <2>1. c = SubSeq(m, 1, n - 1)
    BY DEF m, n
  <2>2. PICK k \in Int : k = n - 1
    BY <1>1
  <2>3. /\ SubSeq(m, 1, k) \in Seq(CellT) /\ Len(SubSeq(m, 1, k)) = IF 1 <= k THEN k - 1 + 1 ELSE 0
        /\ \A j \in 1..k - 1 + 1 : SubSeq(m, 1, k)[j] = m[1 + j - 1]
    BY <1>3, <2>2, SubSeqProperties
  <2> QED BY <2>1, <2>2, <2>3
<1>5. ASSUME NEW j \in 1..n - 1 PROVE c[j] = IF j < i THEN a.cells[j] ELSE a.cells[j + 1]
  <2>1. j \in 1..(n - 1) - 1 + 1 /\ 1 + j - 1 = j /\ j \in 1..n /\ (j \in i..n - 1 <=> ~ j < i)
    BY <1>1
  <2> QED BY <1>2, <1>4, <2>1
<1> QED BY <1>1, <1>4, <1>5 DEF n

LEMMA RemovedIs ==
  ASSUME NEW H \in HeapT, NEW a, Fresh(H, a), NEW i \in 1..a.l
  PROVE  Yields(H, Removed(With(H, a), a, i), RemoveAt(KeysOf(a), i))
<1> DEFINE w == With(H, a)
           n == a.l
           x == a.cells[i].own
           c == SubSeq(Moved(a.cells, i, n), 1, n - 1)
           b == [null |-> FALSE, cells |-> c, l |-> n - 1]
           ks == RemoveAt(KeysOf(a), i)
           r == Removed(w, a, i)
<1>1. /\ Good(a) /\ n \in Nat /\ DOMAIN a.cells = 1..n /\ \A k \in 1..n : a.cells[k] \in CellT
      /\ \A k, q \in 1..n : a.cells[k].own = a.cells[q].own => k = q
      /\ OwnOf(a) \in SUBSET Memory /\ OwnOf(a) \cap H.own = {}
  BY GoodCells DEF Fresh
<1>2. a = [null |-> FALSE, cells |-> a.cells, l |-> n] /\ BlockOf(a) = 1
  <2>1. a \in [null : BOOLEAN, cells : Seq(CellT), l : Nat] /\ (a.null => a.l = 0)
    BY <1>1 DEF Good
  <2>2. a.null = FALSE
    BY <1>1, <2>1
  <2> QED BY <2>1, <2>2 DEF BlockOf
<1>3. r = [h |-> [w EXCEPT !.own = w.own \ {x}, !.bad = w.bad \/ x \notin w.own],
           a |-> [a EXCEPT !.l = a.l - 1, !.cells = c]]
  <2> HIDE DEF w
  <2> QED BY DEF Removed, FreedCell, Shrunk
<1>4. /\ w \in HeapT /\ w.own = H.own \cup OwnOf(a) /\ w.blocks = H.blocks + 1
      /\ w.bad = H.bad /\ w.lost = H.lost
  BY <1>2, WithIsHeap DEF With
<1>5. x \in OwnOf(a) /\ OwnOf(a) = {a.cells[k].own : k \in 1..n}
  BY DEF OwnOf
<1>6. /\ c \in Seq(CellT) /\ Len(c) = n - 1
      /\ \A j \in 1..n - 1 : c[j] = IF j < i THEN a.cells[j] ELSE a.cells[j + 1]
  <2>1. c = SubSeq(Moved(a.cells, i, a.l), 1, a.l - 1)
    OBVIOUS
  <2>2. Good(a)
    BY <1>1
  <2> HIDE DEF c
  <2>3. /\ c \in Seq(CellT) /\ Len(c) = a.l - 1
        /\ \A j \in 1..a.l - 1 : c[j] = IF j < i THEN a.cells[j] ELSE a.cells[j + 1]
    BY <2>1, <2>2, MovedIs
  <2> QED BY <2>3
<1> HIDE DEF c, w, r
<1>7. /\ KeysOf(a) \in Seq(Keys) /\ Len(KeysOf(a)) = n /\ \A j \in 1..n : KeysOf(a)[j] = a.cells[j].key
  BY <1>1, KeysAre
<1>8. /\ ks \in Seq(Keys) /\ Len(ks) = n - 1
      /\ \A j \in 1..n - 1 : ks[j] = IF j < i THEN KeysOf(a)[j] ELSE KeysOf(a)[j + 1]
  <2>1. PICK s \in Seq(Keys) : s = KeysOf(a)
    BY <1>7
  <2>2. i \in 1..Len(s) /\ ks = RemoveAt(s, i) /\ Len(s) = n
    BY <1>7, <2>1
  <2>3. /\ RemoveAt(s, i) \in Seq(Keys) /\ Len(RemoveAt(s, i)) = Len(s) - 1
        /\ \A j \in 1..Len(s) - 1 : RemoveAt(s, i)[j] = IF j < i THEN s[j] ELSE s[j + 1]
    BY <2>2, RemoveAtIs
  <2> HIDE DEF ks, n
  <2> QED BY <2>1, <2>2, <2>3
<1> HIDE DEF ks, n, x
<1>9. \A j \in 1..n - 1 : j \in 1..n /\ j + 1 \in 1..n /\ c[j].key = ks[j]
  BY <1>1, <1>6, <1>7, <1>8
<1>10. Apart(c)
  <2>1. DOMAIN c = 1..n - 1
    BY <1>6, LenProperties
  <2>2. ASSUME NEW j \in 1..n - 1, NEW k \in 1..n - 1, c[j].own = c[k].own PROVE j = k
    <3>1. CASE j < i /\ k < i
      BY <1>1, <1>6, <1>9, <2>2, <3>1
    <3>2. CASE ~ j < i /\ ~ k < i
      <4>1. j + 1 = k + 1
        <5>1. c[j] = a.cells[j + 1] /\ c[k] = a.cells[k + 1]
          BY <1>6, <3>2
        <5> QED BY <1>1, <1>9, <2>2, <5>1
      <4> QED BY <1>1, <4>1
    <3>3. CASE j < i /\ ~ k < i
      <4>1. j = k + 1
        BY <1>1, <1>6, <1>9, <2>2, <3>3
      <4> QED BY <1>1, <3>3, <4>1
    <3>4. CASE ~ j < i /\ k < i
      <4>1. j + 1 = k
        BY <1>1, <1>6, <1>9, <2>2, <3>4
      <4> QED BY <1>1, <3>4, <4>1
    <3> QED BY <3>1, <3>2, <3>3, <3>4
  <2> QED BY <2>1, <2>2 DEF Apart
<1>11. b = [null |-> FALSE, cells |-> c, l |-> Len(ks)]
  BY <1>8
<1>12. r.a = b
  <2>1. r.a = [a EXCEPT !.l = n - 1, !.cells = c]
    BY <1>3 DEF n
  <2>2. PICK y, z, u : y = n - 1 /\ z = n /\ u = a.cells
    OBVIOUS
  <2>3. r.a = [[null |-> FALSE, cells |-> u, l |-> z] EXCEPT !.l = y, !.cells = c]
    BY <1>2, <2>1, <2>2
  <2>4. r.a = [null |-> FALSE, cells |-> c, l |-> y]
    BY <2>3
  <2> QED BY <2>2, <2>4
<1> HIDE DEF b
<1>13. /\ Good(b) /\ b.l = Len(ks) /\ KeysOf(b) = ks /\ BlockOf(b) = 1
       /\ OwnOf(b) = {c[j].own : j \in 1..Len(ks)}
  BY <1>6, <1>8, <1>9, <1>10, <1>11, ArrayOf
<1>14. {c[j].own : j \in 1..n - 1} = OwnOf(a) \ {x}
  <2>1. ASSUME NEW j \in 1..n - 1 PROVE c[j].own \in OwnOf(a) /\ c[j].own # x
    <3>1. PICK k \in 1..n : c[j] = a.cells[k] /\ k # i
      BY <1>1, <1>6, <1>9
    <3> QED BY <1>1, <1>5, <3>1 DEF x, n
  <2>2. ASSUME NEW k \in 1..n, a.cells[k].own # x PROVE \E j \in 1..n - 1 : c[j].own = a.cells[k].own
    <3>1. k # i
      BY <2>2 DEF x
    <3>2. CASE k < i
      <4>1. k \in 1..n - 1
        BY <1>1, <3>2 DEF n
      <4> QED BY <1>6, <3>2, <4>1
    <3>3. CASE k > i
      <4>1. k - 1 \in 1..n - 1 /\ ~ k - 1 < i /\ (k - 1) + 1 = k
        BY <1>1, <3>3 DEF n
      <4> QED BY <1>6, <4>1
    <3> QED BY <1>1, <3>1, <3>2, <3>3 DEF n
  <2>3. ASSUME NEW y \in OwnOf(a) \ {x} PROVE y \in {c[j].own : j \in 1..n - 1}
    <3>1. PICK k \in 1..n : y = a.cells[k].own
      BY <1>5
    <3> QED BY <2>2, <2>3, <3>1
  <2> QED BY <2>1, <2>3
<1>15. OwnOf(b) = OwnOf(a) \ {x}
  BY <1>8, <1>13, <1>14
<1>16. Fresh(H, b) /\ With(H, b) \in HeapT
  <2>1. Fresh(H, b)
    BY <1>1, <1>13, <1>15 DEF Fresh
  <2> QED BY <2>1, WithIsHeap
<1>17. r.h = With(H, b)
  <2>1. PICK o \in SUBSET Memory : o = w.own \ {x}
    BY <1>4 DEF HeapT
  <2>2. x \in w.own /\ (w.bad \/ x \notin w.own) = w.bad
    <3>1. x \in w.own /\ w.bad \in BOOLEAN
      BY <1>4, <1>5 DEF HeapT
    <3> QED BY <3>1
  <2>3. r.h = [w EXCEPT !.own = o, !.bad = w.bad]
    <3>1. r.h = [w EXCEPT !.own = w.own \ {x}, !.bad = w.bad \/ x \notin w.own]
      BY <1>3
    <3> QED BY <2>1, <2>2, <3>1
  <2>4. r.h \in HeapT /\ r.h.own = o /\ r.h.blocks = w.blocks /\ r.h.bad = w.bad /\ r.h.lost = w.lost
    BY <1>4, <2>1, <2>3 DEF HeapT
  <2>5. o = H.own \cup OwnOf(b)
    BY <1>1, <1>4, <1>5, <1>15, <2>1
  <2>6. PICK y \in HeapT : y = With(H, b)
    BY <1>16
  <2>7. y.own = H.own \cup OwnOf(b) /\ y.blocks = H.blocks + 1 /\ y.bad = H.bad /\ y.lost = H.lost
    BY <1>13, <2>6 DEF With
  <2>8. r.h.own = y.own /\ r.h.blocks = y.blocks /\ r.h.bad = y.bad /\ r.h.lost = y.lost
    BY <1>4, <2>4, <2>5, <2>7
  <2>9. r.h = y
    BY <2>4, <2>8, SameHeap
  <2> QED BY <2>6, <2>9
<1>18. Yields(H, r, ks)
  BY <1>12, <1>13, <1>16, <1>17 DEF Yields
<1> QED BY <1>18 DEF r, w, ks

LEMMA FrontIs ==
  ASSUME NEW S, NEW s \in Seq(S), s # <<>>
  PROVE  /\ Len(s) \in 1..Len(s) /\ Front(s) = RemoveAt(s, Len(s))
         /\ Front(s) \in Seq(S) /\ Len(Front(s)) = Len(s) - 1
         /\ \A j \in 1..Len(s) - 1 : Front(s)[j] = s[j]
<1> DEFINE n == Len(s)
<1>1. n \in Nat /\ n \in 1..n /\ \A k \in 1..n : s[k] \in S
  BY EmptySeq, LenProperties, ElementOfSeq
<1>2. /\ RemoveAt(s, n) \in Seq(S) /\ Len(RemoveAt(s, n)) = n - 1
      /\ \A j \in 1..n - 1 : RemoveAt(s, n)[j] = IF j < n THEN s[j] ELSE s[j + 1]
  BY <1>1, RemoveAtIs
<1> HIDE DEF n
<1>3. PICK k \in Int : k = n - 1
  BY <1>1
<1>4. /\ SubSeq(s, 1, k) \in Seq(S) /\ Len(SubSeq(s, 1, k)) = IF 1 <= k THEN k - 1 + 1 ELSE 0
      /\ \A j \in 1..k - 1 + 1 : SubSeq(s, 1, k)[j] = s[1 + j - 1]
  <2>1. \A j \in 1..k : s[j] \in S
    BY <1>1, <1>3
  <2> QED BY <2>1, SubSeqProperties
<1>5. Front(s) = SubSeq(s, 1, k)
  BY <1>3 DEF Front, n
<1>6. Front(s) \in Seq(S) /\ Len(Front(s)) = n - 1
  BY <1>1, <1>3, <1>4, <1>5
<1>7. ASSUME NEW j \in 1..n - 1 PROVE Front(s)[j] = s[j] /\ RemoveAt(s, n)[j] = s[j]
  <2>1. j \in 1..k - 1 + 1 /\ 1 + j - 1 = j /\ j < n
    BY <1>1, <1>3
  <2> QED BY <1>2, <1>4, <1>5, <2>1
<1>8. Front(s) = RemoveAt(s, n)
  <2>1. PICK u \in Seq(S), v \in Seq(S) : u = Front(s) /\ v = RemoveAt(s, n)
    BY <1>2, <1>6
  <2>2. Len(u) = Len(v) /\ \A j \in 1..Len(u) : u[j] = v[j]
    BY <1>2, <1>6, <1>7, <2>1
  <2>3. u = v
    BY <2>2, SeqEqual
  <2> QED BY <2>1, <2>3
<1> QED BY <1>1, <1>6, <1>7, <1>8 DEF n

LEMMA PoppedIs ==
  ASSUME NEW H \in HeapT, NEW a, Fresh(H, a), a.l > 0
  PROVE  /\ Yields(H, Popped(With(H, a), a), Front(KeysOf(a)))
         /\ KeysOf(a) # <<>>
<1> DEFINE n == a.l
<1>1. Good(a) /\ n \in Nat /\ n \in 1..n /\ a.cells \in [1..n -> CellT]
  <2>1. Good(a) /\ n \in Nat
    BY GoodCells DEF Fresh
  <2>2. a.cells \in Seq(CellT) /\ Len(a.cells) = n
    BY <2>1 DEF Good
  <2> QED BY <2>1, <2>2, LenProperties
<1>2. KeysOf(a) \in Seq(Keys) /\ Len(KeysOf(a)) = n
  BY <1>1, KeysAre
<1>3. KeysOf(a) # <<>>
  BY <1>1, <1>2, EmptySeq
<1>4. Moved(a.cells, n, n) = a.cells
  <2> HIDE DEF n
  <2>1. \A j \in 1..n : j \notin n..n - 1
    BY <1>1
  <2>2. Moved(a.cells, n, n) = [j \in 1..n |-> a.cells[j]]
    BY <2>1 DEF Moved
  <2> QED BY <1>1, <2>2
<1>5. Popped(With(H, a), a) = Removed(With(H, a), a, n)
  <2>1. Shrunk(a, Moved(a.cells, n, n)) = Shrunk(a, a.cells)
    BY <1>4
  <2> QED BY <2>1 DEF Popped, Removed
<1>6. Front(KeysOf(a)) = RemoveAt(KeysOf(a), n)
  BY <1>2, <1>3, FrontIs
<1>7. Yields(H, Removed(With(H, a), a, n), RemoveAt(KeysOf(a), n))
  BY <1>1, RemovedIs
<1> QED BY <1>3, <1>5, <1>6, <1>7

(* What _sort swaps stays the array's. *)
Other(i, j) == IF j = i THEN i + 1 ELSE IF j = i + 1 THEN i ELSE j

LEMMA SwappedIs ==
  ASSUME NEW a, Good(a), NEW i \in 1..a.l - 1
  PROVE  LET b == Swapped(a, i)
             ks == KeysOf(a) IN
         /\ Good(b) /\ b.l = a.l /\ OwnOf(b) = OwnOf(a) /\ BlockOf(b) = BlockOf(a)
         /\ KeysOf(b) = [ks EXCEPT ![i + 1] = ks[i], ![i] = ks[i + 1]]
         /\ \A j \in 1..a.l : b.cells[j] = a.cells[Other(i, j)]
<1> DEFINE n == a.l
           b == Swapped(a, i)
           c == [[a.cells EXCEPT ![i + 1] = a.cells[i]] EXCEPT ![i] = a.cells[i + 1]]
           ks == KeysOf(a)
           Seat(j) == IF j = i THEN i + 1 ELSE IF j = i + 1 THEN i ELSE j
<1>1. /\ n \in Nat /\ a.cells \in [1..n -> CellT] /\ i \in 1..n /\ i + 1 \in 1..n
      /\ \A k \in 1..n : a.cells[k] \in CellT
      /\ \A j, k \in 1..n : a.cells[j].own = a.cells[k].own => j = k
  <2>1. n \in Nat
    BY GoodCells
  <2>2. a.cells \in Seq(CellT) /\ Len(a.cells) = n
    BY DEF Good
  <2>3. a.cells \in [1..n -> CellT]
    BY <2>2, LenProperties
  <2>4. i \in 1..n /\ i + 1 \in 1..n
    BY <2>1
  <2> QED BY <2>1, <2>3, <2>4, GoodCells
<1>2. b = [a EXCEPT !.cells = c]
  BY DEF Swapped, Good
<1>3. a = [null |-> a.null, cells |-> a.cells, l |-> n] /\ a.null \in BOOLEAN /\ (a.null => n = 0)
  BY DEF Good
<1>4. ks \in Seq(Keys) /\ Len(ks) = n /\ ks \in [1..n -> Keys] /\ \A j \in 1..n : ks[j] = a.cells[j].key
  <2>1. ks \in Seq(Keys) /\ Len(ks) = n /\ \A j \in 1..n : ks[j] = a.cells[j].key
    BY KeysAre
  <2> QED BY <2>1, LenProperties
<1> HIDE DEF n, b, ks
<1>5. c \in [1..n -> CellT] /\ \A j \in 1..n : c[j] = a.cells[Seat(j)] /\ Seat(j) \in 1..n
  BY <1>1
<1> HIDE DEF c
<1>6. b = [null |-> a.null, cells |-> c, l |-> n]
  <2>1. PICK x, y, z : x = a.null /\ y = a.cells /\ z = n
    OBVIOUS
  <2>2. b = [[null |-> x, cells |-> y, l |-> z] EXCEPT !.cells = c]
    BY <1>2, <1>3, <2>1
  <2>3. b = [null |-> x, cells |-> c, l |-> z]
    BY <2>2
  <2> QED BY <2>1, <2>3
<1>7. c \in Seq(CellT) /\ Len(c) = n /\ DOMAIN c = 1..n
  BY <1>1, <1>5, IsSequence
<1>8. \A j \in 1..n : Seat(Seat(j)) = j
  BY <1>1
<1>9. Apart(c)
  <2>1. ASSUME NEW j \in 1..n, NEW k \in 1..n, c[j].own = c[k].own PROVE j = k
    <3>1. Seat(j) = Seat(k)
      <4> HIDE DEF Seat
      <4> QED BY <1>1, <1>5, <2>1
    <3> QED BY <3>1, <1>8
  <2> QED BY <1>7, <2>1 DEF Apart
<1>10. Good(b) /\ b.l = n /\ b.cells = c /\ b.null = a.null
  BY <1>1, <1>3, <1>6, <1>7, <1>9 DEF Good
<1>11. OwnOf(b) = OwnOf(a)
  <2>1. OwnOf(b) = {c[j].own : j \in 1..n} /\ OwnOf(a) = {a.cells[j].own : j \in 1..n}
    BY <1>10 DEF OwnOf, n
  <2> HIDE DEF Seat
  <2>2. \A j \in 1..n : a.cells[j] = c[Seat(j)] /\ Seat(j) \in 1..n
    BY <1>5, <1>8
  <2> QED BY <1>5, <2>1, <2>2
<1>12. KeysOf(b) = [ks EXCEPT ![i + 1] = ks[i], ![i] = ks[i + 1]]
  <2> DEFINE k2 == [[ks EXCEPT ![i + 1] = ks[i]] EXCEPT ![i] = ks[i + 1]]
  <2>1. KeysOf(b) = [j \in 1..n |-> c[j].key]
    BY <1>10 DEF KeysOf
  <2>2. k2 \in [1..n -> Keys] /\ \A j \in 1..n : k2[j] = ks[Seat(j)]
    BY <1>1, <1>4
  <2>3. \A j \in 1..n : c[j].key = k2[j]
    <3> HIDE DEF Seat, k2
    <3> QED BY <1>4, <1>5, <2>2
  <2> HIDE DEF k2
  <2>4. KeysOf(b) = k2
    BY <2>1, <2>2, <2>3
  <2> QED BY <2>4 DEF k2
<1>13. \A j \in 1..n : b.cells[j] = a.cells[Other(i, j)]
  BY <1>5, <1>10 DEF Other
<1> QED BY <1>10, <1>11, <1>12, <1>13 DEF b, ks, n, BlockOf

-----------------------------------------------------------------------------
(* Any of the three arrays can be taken for the last that was added.       *)
LEMMA Rotation ==
  ASSUME NEW e \in HeapT, NEW a, NEW s, NEW b, NEW h, Holds(h, e, a, s, b)
  PROVE  Holds(h, e, s, b, a)
<1>1. Fresh(e, a) /\ Fresh(With(e, a), s) /\ Fresh(With(With(e, a), s), b)
  BY DEF Holds
<1>2. /\ Fresh(e, s) /\ Fresh(With(e, s), a) /\ With(With(e, a), s) = With(With(e, s), a)
  BY <1>1, WithCommutes
<1>3. PICK w \in HeapT : w = With(e, s)
  BY <1>2, WithIsHeap
<1>4. Fresh(w, a) /\ Fresh(With(w, a), b)
  BY <1>1, <1>2, <1>3
<1>5. Fresh(w, b) /\ Fresh(With(w, b), a) /\ With(With(w, a), b) = With(With(w, b), a)
  BY <1>4, WithCommutes
<1> QED BY <1>2, <1>3, <1>5 DEF Holds

LEMMA HoldsHeap ==
  ASSUME NEW e \in HeapT, NEW a, NEW s, NEW b, NEW h, Holds(h, e, a, s, b)
  PROVE  /\ h \in HeapT /\ With(e, a) \in HeapT /\ With(With(e, a), s) \in HeapT
         /\ a.l \in Nat /\ s.l \in Nat /\ b.l \in Nat
         /\ h.own = e.own \cup OwnOf(a) \cup OwnOf(s) \cup OwnOf(b)
         /\ h.blocks = e.blocks + BlockOf(a) + BlockOf(s) + BlockOf(b)
         /\ h.bad = e.bad /\ h.lost = e.lost
         /\ Cardinality(h.own) = Cardinality(e.own) + a.l + s.l + b.l
<1>1. PICK w \in HeapT : w = With(e, a) /\ Cardinality(w.own) = Cardinality(e.own) + a.l
  BY WithIsHeap DEF Holds
<1>2. PICK v \in HeapT : v = With(w, s) /\ Cardinality(v.own) = Cardinality(w.own) + s.l
  BY <1>1, WithIsHeap DEF Holds
<1>3. h \in HeapT /\ h = With(v, b) /\ Cardinality(h.own) = Cardinality(v.own) + b.l
  BY <1>1, <1>2, WithIsHeap DEF Holds
<1>4. /\ w.own = e.own \cup OwnOf(a) /\ w.blocks = e.blocks + BlockOf(a) /\ w.bad = e.bad /\ w.lost = e.lost
      /\ v.own = w.own \cup OwnOf(s) /\ v.blocks = w.blocks + BlockOf(s) /\ v.bad = w.bad /\ v.lost = w.lost
      /\ h.own = v.own \cup OwnOf(b) /\ h.blocks = v.blocks + BlockOf(b) /\ h.bad = v.bad /\ h.lost = v.lost
  BY <1>1, <1>2, <1>3 DEF With
<1>5. Good(a) /\ Good(s) /\ Good(b)
  BY DEF Holds, Fresh
<1>6. a.l \in Nat /\ s.l \in Nat /\ b.l \in Nat
  BY <1>5, GoodCells
<1> QED BY <1>1, <1>2, <1>3, <1>4, <1>6

LEMMA NothingIsHeap ==
  ASSUME NEW lost \in BOOLEAN
  PROVE  Nothing(lost) \in HeapT /\ Nothing(lost).own = {} /\ Nothing(lost).blocks = 0
         /\ Nothing(lost).bad = FALSE /\ Nothing(lost).lost = lost
         /\ Cardinality(Nothing(lost).own) = 0
BY FS_EmptySet DEF Nothing, HeapT

(* Both local arrays are freed. *)
LEMMA BothFreed ==
  ASSUME NEW e \in HeapT, NEW a, NEW s, NEW b, NEW h, Holds(h, e, a, s, b)
  PROVE  Freed(Freed(h, s), b) = With(e, a)
<1>1. PICK w \in HeapT : w = With(e, a)
  BY WithIsHeap DEF Holds
<1>2. Fresh(w, s) /\ Fresh(With(w, s), b) /\ h = With(With(w, s), b)
  BY <1>1 DEF Holds
<1>3. Fresh(w, b) /\ Fresh(With(w, b), s) /\ h = With(With(w, b), s)
  BY <1>2, WithCommutes
<1>4. PICK v \in HeapT : v = With(w, b)
  BY <1>3, WithIsHeap
<1>5. Freed(h, s) = v
  BY <1>3, <1>4, FreedUndoes
<1>6. Freed(v, b) = w
  BY <1>3, <1>4, FreedUndoes
<1> QED BY <1>1, <1>5, <1>6

LEMMA HoldsOne ==
  ASSUME NEW e \in HeapT, NEW a, Fresh(e, a)
  PROVE  Holds(With(e, a), e, a, NullArray, NullArray)
<1>1. PICK w \in HeapT : w = With(e, a)
  BY WithIsHeap
<1>2. Fresh(w, NullArray) /\ With(w, NullArray) = w
  BY WithNull
<1> QED BY <1>1, <1>2 DEF Holds

(* The account for the array variable alone: the heap without it. *)
Others == With(With(Nothing(heap.lost), Source), Built)

LEMMA AccountOf ==
  ASSUME Account
  PROVE  /\ Others \in HeapT /\ Fresh(Others, self) /\ heap = With(Others, self)
         /\ heap \in HeapT /\ heap.bad = FALSE
         /\ heap.own = OwnOf(self) \cup OwnOf(Source) \cup OwnOf(Built)
         /\ heap.blocks = BlockOf(self) + BlockOf(Source) + BlockOf(Built)
         /\ Cardinality(heap.own) = self.l + Source.l + Built.l
         /\ self.l \in 0..MaxLen /\ Source.l \in 0..MaxLen /\ Built.l \in 0..MaxLen
         /\ Good(self) /\ Good(Source) /\ Good(Built)
<1>1. PICK e \in HeapT : e = Nothing(heap.lost)
  BY NothingIsHeap DEF Account
<1>2. Holds(heap, e, self, Source, Built)
  BY <1>1 DEF Account
<1>3. Holds(heap, e, Source, Built, self)
  BY <1>2, Rotation
<1>4. Others \in HeapT /\ Fresh(Others, self) /\ heap = With(Others, self)
  BY <1>1, <1>3, HoldsHeap DEF Others, Holds
<1>5. /\ heap \in HeapT /\ self.l \in Nat /\ Source.l \in Nat /\ Built.l \in Nat
      /\ heap.own = e.own \cup OwnOf(self) \cup OwnOf(Source) \cup OwnOf(Built)
      /\ heap.blocks = e.blocks + BlockOf(self) + BlockOf(Source) + BlockOf(Built)
      /\ heap.bad = e.bad
      /\ Cardinality(heap.own) = Cardinality(e.own) + self.l + Source.l + Built.l
  BY <1>2, HoldsHeap
<1>6. Good(self) /\ Good(Source) /\ Good(Built)
  BY <1>2 DEF Holds, Fresh
<1>7. e.own = {} /\ e.blocks = 0 /\ e.bad = FALSE /\ Cardinality(e.own) = 0
  BY <1>1, NothingIsHeap DEF Account
<1>8. BlockOf(self) \in Int /\ BlockOf(Source) \in Int /\ BlockOf(Built) \in Int
  BY <1>6, GoodCells
<1>9. self.l \in 0..MaxLen /\ Source.l \in 0..MaxLen /\ Built.l \in 0..MaxLen
  BY <1>5, ListsAssumption DEF Account
<1>10. heap.own = OwnOf(self) \cup OwnOf(Source) \cup OwnOf(Built) /\ heap.bad = FALSE
  BY <1>5, <1>7
<1>11. /\ heap.blocks = BlockOf(self) + BlockOf(Source) + BlockOf(Built)
       /\ Cardinality(heap.own) = self.l + Source.l + Built.l
  BY <1>5, <1>7, <1>8
<1> QED BY <1>4, <1>5, <1>6, <1>9, <1>10, <1>11

LEMMA RoomLeft ==
  ASSUME Account, NEW n \in Nat, n <= 2 * MaxLen
  PROVE  Room(heap, n)
<1>1. Cardinality(heap.own) \in Nat /\ Cardinality(heap.own) <= 3 * MaxLen
  BY AccountOf, ListsAssumption
<1> QED BY <1>1, ListsAssumption, MemoryAssumption, MemoryIsFinite DEF Room

(* A step in which the variable alone changes. *)
LEMMA SelfChanges ==
  ASSUME Account, NEW m, NEW ks, Yields(Others, m, ks), Len(ks) <= MaxLen, Becomes(m),
         Source' = Source, Built' = Built
  PROVE  Account' /\ KeysOf(self') = ks /\ self'.l = Len(ks)
<1>1. PICK e \in HeapT : e = Nothing(heap.lost)
  BY NothingIsHeap DEF Account
<1>2. Holds(heap, e, Source, Built, self)
  BY <1>1, Rotation DEF Account
<1>3. Holds(m.h, e, Source, Built, m.a)
  BY <1>1, <1>2 DEF Holds, Yields, Others
<1>4. Holds(m.h, e, m.a, Source, Built)
  BY <1>3, Rotation
<1>5. m.h.lost = heap.lost
  BY <1>2, <1>3, HoldsHeap
<1>6. m.a.l <= MaxLen
  BY DEF Yields
<1>7. heap' = m.h /\ self' = m.a
  BY DEF Becomes
<1>8. heap'.lost \in BOOLEAN /\ Nothing(heap'.lost) = e
  BY <1>1, <1>5, <1>7 DEF Account
<1>9. Account'
  BY <1>4, <1>6, <1>7, <1>8 DEF Account
<1> QED BY <1>7, <1>9 DEF Yields

LEMMA LocalsWhenFree ==
  ASSUME run = Free
  PROVE  /\ Source = NullArray /\ Built = NullArray
         /\ ~InSort /\ ~InFilter /\ ~InForEach
         /\ Running
BY DEF Source, Built, InSort, InFilter, InForEach, Free, Running

LEMMA LocalsWhenStopped ==
  ASSUME Stopped
  PROVE  Source = NullArray /\ Built = NullArray /\ ~InSort /\ ~InFilter /\ ~InForEach /\ run # Free
BY DEF Source, Built, InSort, InFilter, InForEach, Stopped, Ended, Free

(* A step between two calls in which the variable alone changes. *)
LEMMA CallStep ==
  ASSUME IInv, Change, NEW m, NEW ks, Yields(Others, m, ks), Len(ks) <= MaxLen, Becomes(m)
  PROVE  IInv' /\ KeysOf(self') = ks
<1>1. run = Free /\ run' = Free
  BY DEF Change
<1>2. Source' = Source /\ Built' = Built
  BY <1>1 DEF Source, Built, InFilter, InForEach
<1>3. Account' /\ KeysOf(self') = ks
  BY <1>2, SelfChanges DEF IInv
<1> QED BY <1>1, <1>3 DEF IInv, Running

LEMMA ListIs ==
  ASSUME NEW ks \in Lists
  PROVE  ks \in Seq(Keys) /\ Len(ks) \in Nat /\ Len(ks) <= MaxLen
BY ListsAssumption, LenProperties

LEMMA SelfKeys ==
  ASSUME Account
  PROVE  KeysOf(self) \in Seq(Keys) /\ Len(KeysOf(self)) = self.l /\ self.l \in 0..MaxLen
BY AccountOf, KeysAre

LEMMA ClearStep ==
  ASSUME IInv, Clear
  PROVE  IInv' /\ KeysOf(self') = <<>>
<1>1. Yields(Others, Cleared(heap, self), <<>>)
  BY AccountOf, ClearedIs DEF IInv
<1>2. Len(<<>>) <= MaxLen
  BY ListsAssumption, EmptySeq
<1> QED BY <1>1, <1>2, CallStep DEF Clear

LEMMA AssignStep ==
  ASSUME IInv, NEW ks \in Lists, Assign(ks)
  PROVE  IInv' /\ KeysOf(self') = ks
<1>1. Room(heap, Len(ks))
  BY ListIs, RoomLeft, ListsAssumption DEF IInv
<1>2. Yields(Others, Replaced(heap, self, ks), ks)
  BY <1>1, AccountOf, ListIs, ReplacedIs DEF IInv
<1> QED BY <1>2, ListIs, CallStep DEF Assign

LEMMA PushStep ==
  ASSUME IInv, NEW ks \in Lists, Push(ks)
  PROVE  IInv' /\ KeysOf(self') = KeysOf(self) \o ks
<1>1. Room(heap, Len(ks))
  BY ListIs, RoomLeft, ListsAssumption DEF IInv
<1>2. Yields(Others, Pushed(heap, self, ks), KeysOf(self) \o ks)
  BY <1>1, AccountOf, ListIs, PushedIs DEF IInv
<1>3. Len(KeysOf(self) \o ks) <= MaxLen
  <2>1. ks \in Seq(Keys) /\ KeysOf(self) \in Seq(Keys) /\ Len(KeysOf(self)) = self.l
    BY ListIs, SelfKeys DEF IInv
  <2>2. Len(KeysOf(self) \o ks) = self.l + Len(ks)
    BY <2>1, ConcatIs
  <2> QED BY <2>2 DEF Push
<1>4. PICK m : m = Pushed(heap, self, ks)
  OBVIOUS
<1>5. Change /\ Becomes(m) /\ Yields(Others, m, KeysOf(self) \o ks)
  BY <1>2, <1>4 DEF Push
<1> QED BY <1>3, <1>5, CallStep

LEMMA MergeStep ==
  ASSUME IInv, NEW ks \in Lists, Merge(ks)
  PROVE  IInv' /\ KeysOf(self') = KeysOf(self) \o ks
<1>1. Room(heap, Len(ks) + Len(ks))
  BY ListIs, RoomLeft, ListsAssumption DEF IInv
<1>2. Yields(Others, Merged(heap, self, ks), KeysOf(self) \o ks)
  BY <1>1, AccountOf, ListIs, MergedIs DEF IInv
<1>3. Len(KeysOf(self) \o ks) <= MaxLen
  BY ListIs, SelfKeys, ConcatIs DEF Merge, IInv
<1> QED BY <1>2, <1>3, CallStep DEF Merge

LEMMA PopStep ==
  ASSUME IInv, Pop
  PROVE  /\ IInv'
         /\ \/ KeysOf(self) # <<>> /\ KeysOf(self') = Front(KeysOf(self)) /\ run = Free /\ run' = Free
            \/ self.l = 0 /\ self' = self /\ run = Free /\ run' = Ended("undefined")
<1>1. CASE PopLength
  <2>1. Yields(Others, Popped(heap, self), Front(KeysOf(self))) /\ KeysOf(self) # <<>>
    BY <1>1, AccountOf, PoppedIs DEF PopLength, IInv
  <2>2. Len(Front(KeysOf(self))) <= MaxLen
    <3>1. PICK s \in Seq(Keys) : s = KeysOf(self) /\ Len(s) = self.l /\ s # <<>>
      BY <2>1, SelfKeys DEF IInv
    <3>2. Len(Front(s)) = self.l - 1
      BY <3>1, FrontIs
    <3> QED BY <3>1, <3>2, SelfKeys, ListsAssumption DEF IInv
  <2>3. Change /\ Becomes(Popped(heap, self))
    BY <1>1 DEF Pop, Change
  <2> QED BY <2>1, <2>2, <2>3, CallStep DEF Change
<1>2. CASE ~PopLength
  <2>1. self' = self /\ heap' = heap /\ run = Free /\ run' = Ended("undefined")
    BY <1>2 DEF Pop
  <2>2. Stopped'
    BY <2>1 DEF Stopped
  <2>3. Source' = Source /\ Built' = Built
    <3>1. (Stopped => Source = NullArray /\ Built = NullArray)'
      BY LocalsWhenStopped, PTL
    <3> QED BY <2>1, <2>2, <3>1, LocalsWhenFree
  <2>4. IInv'
    BY <2>1, <2>2, <2>3 DEF IInv, Account, Running
  <2>5. self.l = 0
    BY <1>2, AccountOf, ListsAssumption DEF PopLength, IInv
  <2> QED BY <2>1, <2>4, <2>5
<1> QED BY <1>1, <1>2

LEMMA MergeExhaustsStep ==
  ASSUME IInv, NEW ks \in Lists, MergeExhausts(ks)
  PROVE  /\ IInv'
         /\ self.l = 0 /\ self' = self /\ run = Free /\ run' = Ended("exited")
<1>1. self' = self /\ heap' = heap /\ run = Free /\ run' = Ended("exited") /\ self.l + Len(ks) = 0
  BY DEF MergeExhausts, Exhausted
<1>2. Stopped'
  BY <1>1 DEF Stopped
<1>3. Source' = Source /\ Built' = Built
  <2>1. (Stopped => Source = NullArray /\ Built = NullArray)'
    BY LocalsWhenStopped, PTL
  <2> QED BY <1>1, <1>2, <2>1, LocalsWhenFree
<1>4. IInv'
  BY <1>1, <1>2, <1>3 DEF IInv, Account, Running
<1>5. self.l = 0
  BY <1>1, ListIs, AccountOf, ListsAssumption DEF IInv
<1> QED BY <1>1, <1>4, <1>5

LEMMA CellInside ==
  ASSUME NEW l \in Nat, NEW n \in Int, ~OutOfBounds(l, n)
  PROVE  Cell(l, n) \in 1..l
BY DEF OutOfBounds, Cell

LEMMA RemoveIndexStep ==
  ASSUME IInv, NEW n \in Indexes, RemoveIndex(n)
  PROVE  /\ IInv' /\ run = Free /\ run' = Free
         /\ OutOfBounds(self.l, n) => self' = self
         /\ ~OutOfBounds(self.l, n) => KeysOf(self') = RemoveAt(KeysOf(self), Cell(self.l, n))
<1>1. run = Free /\ run' = Free /\ n \in Int /\ self.l \in Nat
  BY AccountOf, ListsAssumption DEF RemoveIndex, IInv
<1>2. CASE OutOfBounds(self.l, n)
  <2>1. self' = self /\ heap' = heap
    BY <1>2 DEF RemoveIndex
  <2>2. IInv'
    BY <1>1, <2>1 DEF IInv, Account, Running, Source, Built, InFilter, InForEach
  <2> QED BY <1>1, <1>2, <2>1, <2>2
<1>3. CASE ~OutOfBounds(self.l, n)
  <2>1. PICK i \in 1..self.l : i = Cell(self.l, n)
    BY <1>1, <1>3, CellInside
  <2>2. Yields(Others, Removed(heap, self, i), RemoveAt(KeysOf(self), i))
    BY AccountOf, RemovedIs DEF IInv
  <2>3. Len(RemoveAt(KeysOf(self), i)) <= MaxLen
    <3>1. Len(RemoveAt(KeysOf(self), i)) = self.l - 1
      BY SelfKeys, RemoveAtIs DEF IInv
    <3> QED BY <3>1, SelfKeys, ListsAssumption DEF IInv
  <2>4. Change /\ Becomes(Removed(heap, self, i))
    BY <1>3, <2>1 DEF RemoveIndex, Change
  <2> QED BY <1>1, <1>3, <2>1, <2>2, <2>3, <2>4, CallStep
<1> QED BY <1>2, <1>3

-----------------------------------------------------------------------------
(* The steps of _sort. *)

LEMMA LocalsWhenSorting ==
  ASSUME run.op = "sort"
  PROVE  Source = NullArray /\ Built = NullArray /\ InSort /\ ~InFilter /\ ~InForEach /\ run # Free
BY DEF Source, Built, InSort, InFilter, InForEach, Free

LEMMA SortingIs ==
  ASSUME Running, InSort
  PROVE  SortRuns
BY DEF Running, InSort, Stopped, Ended, Free, FilterRuns, FilterT, ForEachRuns, VisitT

LEMMA LoopIs ==
  ASSUME NEW a, Good(a), NEW i \in Nat \ {0}, NEW b \in BOOLEAN
  PROVE  /\ LoopAt(a, i, b) \in LoopT /\ NextPass(a) \in LoopT
         /\ LoopAt(a, i, b).calling => LoopAt(a, i, b).i >= 1 /\ LoopAt(a, i, b).i < a.l
         /\ NextPass(a).calling => NextPass(a).i >= 1 /\ NextPass(a).i < a.l
<1>1. a.l \in Nat /\ \A k \in 1..a.l : a.cells[k].key \in Keys
  BY GoodCells DEF CellT
<1>2. ASSUME NEW x \in BOOLEAN PROVE PassOver(x) \in LoopT /\ PassOver(x).calling = FALSE
  BY DEF PassOver, LoopT
<1>3. ASSUME NEW k \in Nat \ {0}, k < a.l, NEW x \in BOOLEAN
      PROVE  Compares(a, k, x) \in LoopT /\ Compares(a, k, x).i = k
  <2>1. k \in 1..a.l /\ k + 1 \in 1..a.l
    BY <1>1, <1>3
  <2> QED BY <1>1, <2>1 DEF Compares, LoopT
<1>4. NextPass(a) \in LoopT /\ (NextPass(a).calling => NextPass(a).i >= 1 /\ NextPass(a).i < a.l)
  <2>1. CASE 1 < a.l
    <3>1. 1 \in Nat \ {0} /\ FALSE \in BOOLEAN
      OBVIOUS
    <3>2. Compares(a, 1, FALSE) \in LoopT /\ Compares(a, 1, FALSE).i = 1
      BY <1>3, <2>1, <3>1
    <3>3. NextPass(a) = Compares(a, 1, FALSE)
      BY <2>1 DEF NextPass
    <3>4. PICK y \in LoopT : y = Compares(a, 1, FALSE) /\ y.i = 1
      BY <3>2
    <3>5. NextPass(a) = y
      BY <3>3, <3>4
    <3>6. NextPass(a) \in LoopT
      BY <3>4, <3>5
    <3>7. NextPass(a).i = 1
      BY <3>4, <3>5
    <3> QED BY <2>1, <3>6, <3>7
  <2>2. CASE ~ 1 < a.l
    BY <1>2, <2>2 DEF NextPass
  <2> QED BY <2>1, <2>2
<1>5. CASE i < a.l
  BY <1>3, <1>4, <1>5 DEF LoopAt
<1>6. CASE ~ i < a.l
  BY <1>2, <1>4, <1>6 DEF LoopAt
<1> QED BY <1>5, <1>6

LEMMA SortStep ==
  ASSUME IInv, NEW cmp \in Comparators, Sort(cmp)
  PROVE  IInv' /\ self' = self /\ run = Free
         /\ run'.op = "sort" /\ run'.cmp = cmp /\ run'.short = FALSE
<1> DEFINE r == [op |-> "sort", cmp |-> cmp, left |-> MaxMeddles, short |-> FALSE,
                 before |-> Elements(self), loop |-> NextPass(self)]
<1>1. run = Free /\ self' = self /\ heap' = heap /\ run' = r
  BY DEF Sort
<1>2. Good(self) /\ Elements(self) \in Seq(CellT)
  BY AccountOf, ElementsAre DEF IInv, Good
<1>3. NextPass(self) \in LoopT /\ (NextPass(self).calling => NextPass(self).i < self.l /\ NextPass(self).i >= 1)
  <2>1. 1 \in Nat \ {0} /\ FALSE \in BOOLEAN
    OBVIOUS
  <2> QED BY <1>2, <2>1, LoopIs
<1>4. r \in SortT
  BY <1>2, <1>3, ListsAssumption DEF SortT
<1>5. SortRuns'
  BY <1>1, <1>3, <1>4 DEF SortRuns
<1>6. Source' = Source /\ Built' = Built
  <2>1. (run.op = "sort" => Source = NullArray /\ Built = NullArray)'
    BY LocalsWhenSorting, PTL
  <2> QED BY <1>1, <2>1, LocalsWhenFree
<1>7. IInv'
  BY <1>1, <1>5, <1>6 DEF IInv, Account, Running
<1> QED BY <1>1, <1>7

LEMMA SortEndsStep ==
  ASSUME IInv, SortEnds
  PROVE  IInv' /\ self' = self /\ run' = Free
<1>1. run' = Free /\ self' = self /\ heap' = heap /\ run.op = "sort"
  BY DEF SortEnds, InSort
<1>2. Source' = Source /\ Built' = Built
  <2>1. (run = Free => Source = NullArray /\ Built = NullArray)'
    BY LocalsWhenFree, PTL
  <2> QED BY <1>1, <2>1, LocalsWhenSorting
<1> QED BY <1>1, <1>2 DEF IInv, Account, Running

(* Either two neighbours were swapped or nothing was; the program may have *)
(* ended only when its comparator shortened the array.                     *)
LEMMA SortReturnsStep ==
  ASSUME IInv, SortReturns
  PROVE  /\ IInv' /\ InSort
         /\ \/ run' = Ended("undefined") /\ self' = self /\ run.short
            \/ /\ run'.op = "sort" /\ run'.cmp = run.cmp /\ run'.short = run.short
               /\ \/ self' = self
                  \/ \E i \in 1..self.l - 1 : self' = Swapped(self, i)
<1> DEFINE i == run.loop.i
           swaps == GreaterFirst(run.cmp[run.loop.args])
           a == IF swaps /\ i < self.l THEN Swapped(self, i) ELSE self
<1>1. SortRuns /\ run.op = "sort" /\ InSort /\ run.loop.calling
  BY SortingIs DEF SortReturns, Sorting, IInv, InSort
<1>2. /\ run \in SortT /\ i \in Nat \ {0} /\ run.loop.b \in BOOLEAN /\ run.short \in BOOLEAN
      /\ (~run.short => i < self.l) /\ run.cmp \in Comparators
  BY <1>1 DEF SortRuns, SortT, LoopT
<1>3. Good(self) /\ self.l \in Nat
  BY AccountOf DEF IInv
<1>4. heap' = heap
  BY DEF SortReturns
<1>5. CASE swaps /\ i >= self.l
  <2>1. run' = Ended("undefined") /\ self' = self
    BY <1>5 DEF SortReturns
  <2>2. Stopped' /\ run.short
    BY <1>2, <1>3, <1>5, <2>1 DEF Stopped
  <2>3. Source' = Source /\ Built' = Built
    <3>1. (Stopped => Source = NullArray /\ Built = NullArray)'
      BY LocalsWhenStopped, PTL
    <3> QED BY <1>1, <2>2, <3>1, LocalsWhenSorting
  <2>4. IInv'
    BY <1>4, <2>1, <2>2, <2>3 DEF IInv, Account, Running
  <2> QED BY <1>1, <2>1, <2>2, <2>4
<1>6. CASE ~(swaps /\ i >= self.l)
  <2>1. self' = a /\ run' = [run EXCEPT !.loop = LoopAt(a, i + 1, run.loop.b \/ swaps)]
    BY <1>6 DEF SortReturns
  <2>2. (run.loop.b \/ swaps) \in BOOLEAN
    OBVIOUS
  <2>3. /\ Good(a) /\ a.l = self.l /\ OwnOf(a) = OwnOf(self) /\ BlockOf(a) = BlockOf(self)
        /\ a = self \/ \E k \in 1..self.l - 1 : a = Swapped(self, k)
    <3>1. CASE swaps /\ i < self.l
      <4>1. i \in 1..self.l - 1
        BY <1>2, <1>3, <3>1
      <4> QED BY <1>3, <3>1, <4>1, SwappedIs
    <3>2. CASE ~(swaps /\ i < self.l)
      BY <1>3, <3>2
    <3> QED BY <3>1, <3>2
  <2> HIDE DEF a
  <2> DEFINE loop == LoopAt(a, i + 1, run.loop.b \/ swaps)
  <2>4. loop \in LoopT /\ (loop.calling => loop.i >= 1 /\ loop.i < a.l)
    <3>1. PICK x \in BOOLEAN : x = (run.loop.b \/ swaps)
      BY <2>2, Zenon
    <3>2. i + 1 \in Nat \ {0} /\ loop = LoopAt(a, i + 1, x)
      BY <1>2, <3>1
    <3> HIDE DEF loop
    <3> QED BY <2>3, <3>2, LoopIs
  <2> HIDE DEF loop, swaps
  <2>5. run' = [run EXCEPT !.loop = loop]
    BY <2>1 DEF loop
  <2>6. /\ run' \in SortT /\ run'.loop = loop /\ run'.op = "sort"
        /\ run'.cmp = run.cmp /\ run'.short = run.short
    BY <1>1, <1>2, <2>4, <2>5 DEF SortT
  <2>7. SortRuns'
    BY <2>1, <2>3, <2>4, <2>6 DEF SortRuns
  <2>8. Source' = NullArray /\ Built' = NullArray /\ Source = NullArray /\ Built = NullArray
    <3>1. (run.op = "sort" => Source = NullArray /\ Built = NullArray)'
      BY LocalsWhenSorting, PTL
    <3> QED BY <1>1, <2>6, <3>1, LocalsWhenSorting
  <2>9. Account'
    <3>1. PICK e \in HeapT : e = Nothing(heap.lost) /\ Fresh(e, self)
      BY NothingIsHeap DEF IInv, Account, Holds
    <3>2. Fresh(e, a) /\ With(e, a) = With(e, self)
      BY <2>3, <3>1 DEF Fresh, With
    <3>3. Holds(heap, e, a, NullArray, NullArray)
      BY <2>8, <3>1, <3>2 DEF IInv, Account, Holds
    <3> QED BY <1>4, <2>1, <2>3, <2>8, <3>1, <3>3 DEF IInv, Account
  <2>10. IInv'
    BY <2>7, <2>9 DEF IInv, Running
  <2> QED BY <1>1, <2>1, <2>3, <2>6, <2>10
<1> QED BY <1>5, <1>6

-----------------------------------------------------------------------------
(* The steps of filter and of forEach. *)

LEMMA KeepsNothing ==
  ASSUME NEW s, NEW t, DOMAIN t = {}, NEW keep
  PROVE  Keeps(s, 0, t, keep)
<1> DEFINE at == [j \in DOMAIN t |-> j]
<1>1. at \in [DOMAIN t -> 1..0]
  OBVIOUS
<1>2. {at[j] : j \in DOMAIN t} = {i \in 1..0 : s[i] \in keep}
  OBVIOUS
<1> QED BY <1>1, <1>2 DEF Keeps

LEMMA KeepsMore ==
  ASSUME NEW s, NEW n \in Nat, NEW t \in Seq(Keys), NEW keep, Keeps(s, n, t, keep),
         NEW u \in Seq(Keys),
         \/ s[n + 1] \notin keep /\ u = t
         \/ s[n + 1] \in keep /\ u = t \o <<s[n + 1]>> /\ s[n + 1] \in Keys
  PROVE  Keeps(s, n + 1, u, keep)
<1> DEFINE l == Len(t)
<1>1. l \in Nat /\ DOMAIN t = 1..l
  BY LenProperties
<1>2. PICK at \in [1..l -> 1..n] :
        /\ \A j, k \in 1..l : j < k => at[j] < at[k]
        /\ {at[j] : j \in 1..l} = {i \in 1..n : s[i] \in keep}
        /\ \A j \in 1..l : t[j] = s[at[j]]
  BY <1>1 DEF Keeps
<1> HIDE DEF l
<1>3. CASE s[n + 1] \notin keep /\ u = t
  <2>1. at \in [1..l -> 1..n + 1]
    BY <1>2
  <2>2. {i \in 1..n : s[i] \in keep} = {i \in 1..n + 1 : s[i] \in keep}
    BY <1>3
  <2>3. {at[j] : j \in 1..l} = {i \in 1..n + 1 : s[i] \in keep}
    BY <1>2, <2>2
  <2>4. DOMAIN u = 1..l /\ \A j \in 1..l : u[j] = s[at[j]]
    BY <1>1, <1>2, <1>3
  <2>5. \A j, k \in 1..l : j < k => at[j] < at[k]
    BY <1>2
  <2> QED BY <2>1, <2>3, <2>4, <2>5 DEF Keeps
<1>4. CASE s[n + 1] \in keep /\ u = t \o <<s[n + 1]>> /\ s[n + 1] \in Keys
  <2> DEFINE key == s[n + 1]
             at2 == [j \in 1..l + 1 |-> IF j <= l THEN at[j] ELSE n + 1]
  <2>1. /\ Len(u) = l + 1 /\ DOMAIN u = 1..l + 1
        /\ \A j \in 1..l : u[j] = t[j]
        /\ u[l + 1] = key
    <3>1. PICK v \in Seq(Keys) : v = <<key>> /\ Len(v) = 1 /\ v[1] = key
      <4>1. key \in Keys
        BY <1>4
      <4> HIDE DEF key
      <4>2. <<key>> \in Seq(Keys) /\ Len(<<key>>) = 1 /\ <<key>>[1] = key
        BY <4>1
      <4> QED BY <4>2
    <3>2. /\ Len(t \o v) = Len(t) + Len(v)
          /\ \A j \in 1..Len(t) : (t \o v)[j] = t[j]
          /\ \A j \in 1..Len(v) : (t \o v)[Len(t) + j] = v[j]
      BY ConcatIs
    <3>3. u = t \o v /\ 1 \in 1..Len(v)
      BY <1>4, <3>1
    <3>4. Len(u) = l + 1 /\ u[l + 1] = key /\ \A j \in 1..l : u[j] = t[j]
      BY <3>1, <3>2, <3>3 DEF l
    <3> QED BY <3>4, LenProperties
  <2>2. /\ at2 \in [1..l + 1 -> 1..n + 1] /\ at2[l + 1] = n + 1
        /\ \A j \in 1..l : at2[j] = at[j] /\ at[j] \in 1..n
    BY <1>1, <1>2
  <2> HIDE DEF at2, key
  <2>3. \A j \in 1..l + 1 : j \in 1..l \/ j = l + 1
    BY <1>1
  <2>4. \A j, k \in 1..l + 1 : j < k => at2[j] < at2[k]
    <3> SUFFICES ASSUME NEW j \in 1..l + 1, NEW k \in 1..l + 1, j < k PROVE at2[j] < at2[k]
      OBVIOUS
    <3>1. j \in 1..l /\ at2[j] = at[j] /\ at[j] \in 1..n
      BY <1>1, <2>2
    <3>2. CASE k \in 1..l
      BY <1>2, <2>2, <3>1, <3>2
    <3>3. CASE k = l + 1
      BY <2>2, <3>1, <3>3
    <3> QED BY <2>3, <3>2, <3>3
  <2>5. \A j \in 1..l + 1 : u[j] = s[at2[j]]
    BY <1>2, <2>1, <2>2, <2>3 DEF key
  <2>6. {at2[j] : j \in 1..l + 1} = {i \in 1..n + 1 : s[i] \in keep}
    <3>1. ASSUME NEW j \in 1..l + 1 PROVE at2[j] \in {i \in 1..n + 1 : s[i] \in keep}
      <4>1. CASE j \in 1..l
        <5>1. at[j] \in {i \in 1..n : s[i] \in keep}
          BY <1>2, <4>1
        <5> QED BY <2>2, <4>1, <5>1
      <4>2. CASE j = l + 1
        BY <1>4, <2>2, <4>2
      <4> QED BY <2>3, <4>1, <4>2
    <3>2. ASSUME NEW i \in 1..n + 1, s[i] \in keep PROVE \E j \in 1..l + 1 : i = at2[j]
      <4>1. CASE i = n + 1
        BY <1>1, <2>2, <4>1
      <4>2. CASE i # n + 1
        <5>1. i \in {k \in 1..n : s[k] \in keep}
          BY <3>2, <4>2
        <5>2. PICK j \in 1..l : i = at[j]
          BY <1>2, <5>1
        <5>3. j \in 1..l + 1
          BY <1>1
        <5> QED BY <2>2, <5>2, <5>3
      <4> QED BY <4>1, <4>2
    <3> QED BY <3>1, <3>2
  <2> QED BY <2>1, <2>2, <2>4, <2>5, <2>6 DEF Keeps
<1> QED BY <1>3, <1>4

LEMMA LocalsWhenFiltering ==
  ASSUME run.op = "filter"
  PROVE  Source = run.src /\ Built = run.out /\ ~InSort /\ InFilter /\ ~InForEach /\ run # Free
BY DEF Source, Built, InSort, InFilter, InForEach, Free

LEMMA FilteringIs ==
  ASSUME Running, InFilter
  PROVE  FilterRuns
BY DEF Running, InFilter, Stopped, Ended, Free, SortRuns, SortT, ForEachRuns, VisitT

LEMMA LocalsWhenVisiting ==
  ASSUME run.op = "forEach"
  PROVE  Source = run.src /\ Built = NullArray /\ ~InSort /\ ~InFilter /\ InForEach /\ run # Free
BY DEF Source, Built, InSort, InFilter, InForEach, Free

LEMMA VisitingIs ==
  ASSUME Running, InForEach
  PROVE  ForEachRuns
BY DEF Running, InForEach, Stopped, Ended, Free, SortRuns, SortT, FilterRuns, FilterT

(* The copy that a method of the variable is given. *)
LEMMA CopyGiven ==
  ASSUME Account, Source = NullArray, Built = NullArray
  PROVE  LET s == Copy(heap, self)
             e == Nothing(heap.lost) IN
         /\ e \in HeapT /\ Fresh(e, self) /\ heap = With(e, self) /\ heap \in HeapT
         /\ Good(self) /\ self.l \in 0..MaxLen /\ Cardinality(heap.own) = self.l
         /\ Yields(heap, s, KeysOf(self)) /\ s.a.l = self.l /\ s.h \in HeapT
         /\ s.h = With(heap, s.a) /\ Fresh(heap, s.a) /\ s.h.lost = heap.lost
         /\ Cardinality(s.h.own) = self.l + self.l
<1> DEFINE s == Copy(heap, self)
<1>1. PICK e \in HeapT : e = Nothing(heap.lost)
  BY NothingIsHeap DEF Account
<1>2. Fresh(e, self) /\ heap = With(e, self)
  <2>1. Fresh(e, self) /\ heap = With(With(With(e, self), NullArray), NullArray)
    BY <1>1 DEF Account, Holds
  <2>2. PICK w \in HeapT : w = With(e, self)
    BY <2>1, WithIsHeap
  <2> QED BY <2>1, <2>2, WithNull
<1>3. heap \in HeapT /\ Good(self) /\ self.l \in 0..MaxLen /\ Cardinality(heap.own) = self.l
  <2>1. NullArray.l = 0
    BY DEF NullArray
  <2> QED BY <2>1, AccountOf
<1>4. Room(heap, self.l)
  BY <1>3, RoomLeft, ListsAssumption
<1>5. Yields(heap, s, KeysOf(self)) /\ Len(KeysOf(self)) = self.l
  BY <1>3, <1>4, CopyIs, KeysAre
<1> HIDE DEF s
<1>6. s.h = With(heap, s.a) /\ Fresh(heap, s.a) /\ s.a.l = self.l
  BY <1>5 DEF Yields
<1>7. s.h \in HeapT /\ Cardinality(s.h.own) = Cardinality(heap.own) + s.a.l
  BY <1>3, <1>6, WithIsHeap
<1>8. s.h.lost = heap.lost
  BY <1>6 DEF With
<1> QED BY <1>1, <1>2, <1>3, <1>5, <1>6, <1>7, <1>8 DEF s

LEMMA FilterStep ==
  ASSUME IInv, NEW p \in Predicates, Filter(p)
  PROVE  /\ IInv' /\ self' = self /\ run = Free
         /\ run'.op = "filter" /\ run'.keep = p /\ KeysOf(run'.src) = KeysOf(self)
<1> DEFINE s == Copy(heap, self)
           d == Made(s.h, <<>>)
           r == [op |-> "filter", keep |-> p, left |-> MaxMeddles, i |-> 1, src |-> s.a, out |-> d.a]
<1>1. run = Free /\ self' = self /\ heap' = d.h /\ run' = r
  BY DEF Filter
<1>2. PICK e \in HeapT : e = Nothing(heap.lost) /\ Fresh(e, self) /\ heap = With(e, self)
  BY <1>1, CopyGiven, LocalsWhenFree DEF IInv
<1>3. /\ heap \in HeapT /\ self.l \in 0..MaxLen /\ s.h \in HeapT /\ s.a.l = self.l
      /\ s.h = With(heap, s.a) /\ Fresh(heap, s.a) /\ s.h.lost = heap.lost
      /\ Cardinality(s.h.own) = self.l + self.l /\ KeysOf(s.a) = KeysOf(self)
  BY <1>1, CopyGiven, LocalsWhenFree DEF IInv, Yields
<1>4. Yields(s.h, d, <<>>) /\ d.a.null = FALSE
  <2>1. <<>> \in Seq(Keys) /\ Len(<<>>) = 0
    BY EmptySeq
  <2>2. Room(s.h, Len(<<>>))
    BY <1>3, <2>1, ListsAssumption, MemoryAssumption, MemoryIsFinite DEF Room
  <2> HIDE DEF s
  <2> QED BY <1>3, <2>1, <2>2, MadeIs
<1> HIDE DEF s, d, r
<1>5. d.h = With(s.h, d.a) /\ Fresh(s.h, d.a) /\ d.a.l = 0 /\ d.h.lost = heap.lost /\ KeysOf(d.a) = <<>>
  <2>1. d.h = With(s.h, d.a) /\ Fresh(s.h, d.a) /\ d.a.l = 0 /\ KeysOf(d.a) = <<>>
    BY <1>4, EmptySeq DEF Yields
  <2> QED BY <1>3, <2>1 DEF With
<1>6. Holds(d.h, e, self, s.a, d.a)
  BY <1>2, <1>3, <1>5 DEF Holds
<1>7. Good(s.a) /\ Good(d.a) /\ s.a \in ArrayT /\ d.a \in ArrayT
  BY <1>3, <1>5 DEF Fresh, Good, ArrayT
<1>8. /\ r \in FilterT /\ r.op = "filter" /\ r.keep = p /\ r.i = 1 /\ r.src = s.a /\ r.out = d.a
  BY <1>7, ListsAssumption DEF FilterT, r
<1>9. FilterRuns'
  <2>1. Keeps(KeysOf(s.a), 0, KeysOf(d.a), p)
    BY <1>5, KeepsNothing, EmptySeq
  <2>2. run' \in FilterT /\ run'.i \in 1..run'.src.l + 1 /\ run'.out.l < run'.i /\ run'.out.null = FALSE
    BY <1>1, <1>3, <1>4, <1>5, <1>8
  <2>3. Keeps(KeysOf(run'.src), run'.i - 1, KeysOf(run'.out), run'.keep)
    <3>1. run'.i - 1 = 0
      BY <1>1, <1>8
    <3> QED BY <1>1, <1>8, <2>1, <3>1
  <2> QED BY <2>2, <2>3 DEF FilterRuns
<1>10. Source' = s.a /\ Built' = d.a
  <2>1. (run.op = "filter" => Source = run.src /\ Built = run.out)'
    BY LocalsWhenFiltering, PTL
  <2> QED BY <1>1, <1>8, <2>1
<1>11. Account'
  <2>1. heap'.lost = heap.lost /\ heap.lost \in BOOLEAN
    BY <1>1, <1>5 DEF IInv, Account
  <2>2. Holds(heap', Nothing(heap'.lost), self', Source', Built')
    BY <1>1, <1>2, <1>6, <1>10, <2>1
  <2>3. self'.l <= MaxLen /\ Source'.l <= MaxLen /\ Built'.l <= MaxLen
    BY <1>1, <1>3, <1>5, <1>10, ListsAssumption
  <2> QED BY <2>1, <2>2, <2>3 DEF Account
<1> QED BY <1>1, <1>3, <1>8, <1>9, <1>11 DEF IInv, Running

LEMMA FilterEndsStep ==
  ASSUME IInv, FilterEnds
  PROVE  IInv' /\ self' = self /\ run' = Free /\ InFilter
<1>1. /\ self' = self /\ heap' = Freed(Freed(heap, run.src), run.out) /\ run' = Free
      /\ run.op = "filter" /\ InFilter
  BY DEF FilterEnds, InFilter
<1>2. PICK e \in HeapT : e = Nothing(heap.lost)
  BY NothingIsHeap DEF IInv, Account
<1>3. Holds(heap, e, self, run.src, run.out)
  BY <1>1, <1>2, LocalsWhenFiltering DEF IInv, Account
<1>4. heap' = With(e, self) /\ Fresh(e, self)
  BY <1>1, <1>3, BothFreed DEF Holds
<1>5. Holds(heap', e, self', NullArray, NullArray)
  BY <1>1, <1>4, HoldsOne
<1>6. Source' = NullArray /\ Built' = NullArray
  <2>1. (run = Free => Source = NullArray /\ Built = NullArray)'
    BY LocalsWhenFree, PTL
  <2> QED BY <1>1, <2>1
<1>7. heap'.lost = heap.lost /\ heap.lost \in BOOLEAN
  BY <1>2, <1>4, NothingIsHeap DEF With, IInv, Account
<1>8. NullArray.l <= MaxLen
  BY ListsAssumption DEF NullArray
<1>9. Account'
  BY <1>1, <1>2, <1>5, <1>6, <1>7, <1>8 DEF IInv, Account
<1> QED BY <1>1, <1>9 DEF IInv, Running

(* An element is copied to the end of the array that filter builds. *)
OneCell(h, key) == Cells(h, <<key>>)
Added(ks, key)  == ks \o <<key>>
Appended(a, c)  == [null |-> FALSE, cells |-> a.cells \o c, l |-> a.l + 1]

LEMMA OneMore ==
  ASSUME NEW X \in HeapT, NEW a, Fresh(X, a), BlockOf(a) = 1, NEW key \in Keys, Room(With(X, a), 1),
         NEW c, c = OneCell(With(X, a), key),
         NEW b, b = Appended(a, c)
  PROVE  /\ Fresh(X, b) /\ b.l = a.l + 1 /\ KeysOf(b) = Added(KeysOf(a), key)
         /\ With(X, b) \in HeapT /\ With(X, b).own = With(X, a).own \cup {c[1].own}
         /\ With(X, b).blocks = With(X, a).blocks
         /\ With(X, b).bad = With(X, a).bad /\ With(X, b).lost = With(X, a).lost
<1> DEFINE w == With(X, a)
           d == [null |-> FALSE, cells |-> c, l |-> 1]
<1>1. w \in HeapT /\ Good(a) /\ BlockOf(a) = 1
  BY WithIsHeap DEF Fresh
<1>2. PICK ks \in Seq(Keys) : ks = <<key>> /\ Len(ks) = 1 /\ ks[1] = key
  <2>1. <<key>> \in Seq(Keys) /\ Len(<<key>>) = 1 /\ <<key>>[1] = key
    OBVIOUS
  <2> QED BY <2>1
<1>3. w.own = X.own \cup OwnOf(a) /\ w.blocks = X.blocks + 1 /\ w.bad = X.bad /\ w.lost = X.lost
  BY <1>1 DEF With
<1>4. c = Cells(w, ks) /\ Room(w, Len(ks))
  BY <1>2 DEF OneCell
<1> HIDE DEF w
<1>5. /\ c \in Seq(CellT) /\ Len(c) = Len(ks) /\ Apart(c)
      /\ \A i \in 1..Len(ks) : c[i].key = ks[i] /\ c[i].own \in Available(w)
  <2>1. /\ Cells(w, ks) \in Seq(CellT) /\ Len(Cells(w, ks)) = Len(ks) /\ Apart(Cells(w, ks))
        /\ \A i \in 1..Len(ks) : Cells(w, ks)[i].key = ks[i] /\ Cells(w, ks)[i].own \in Available(w)
    BY <1>1, <1>4, CellsAreFresh
  <2> QED BY <1>4, <2>1
<1>6. d = [null |-> FALSE, cells |-> c, l |-> Len(ks)] /\ d.cells = c
  BY <1>2
<1> HIDE DEF d
<1>7. /\ Good(d) /\ d.l = Len(ks) /\ KeysOf(d) = ks /\ BlockOf(d) = 1
      /\ OwnOf(d) = {c[i].own : i \in 1..Len(ks)}
  BY <1>5, <1>6, ArrayOf
<1>8. OwnOf(d) = {c[1].own} /\ c[1].own \in Available(w) /\ d.l = 1
  BY <1>2, <1>5, <1>7
<1>9. OwnOf(d) \cap (X.own \cup OwnOf(a)) = {} /\ OwnOf(a) \cap X.own = {}
  BY <1>3, <1>8 DEF Fresh, Available
<1>10. b = [null |-> FALSE, cells |-> a.cells \o d.cells, l |-> a.l + d.l]
  BY <1>6, <1>8 DEF Appended
<1>11. /\ Good(b) /\ b.l = a.l + 1 /\ KeysOf(b) = KeysOf(a) \o KeysOf(d) /\ BlockOf(b) = 1
       /\ OwnOf(b) = OwnOf(a) \cup OwnOf(d)
  <2>1. OwnOf(a) \cap OwnOf(d) = {}
    BY <1>9
  <2>2. /\ Good(b) /\ b.l = a.l + d.l /\ KeysOf(b) = KeysOf(a) \o KeysOf(d) /\ BlockOf(b) = 1
        /\ OwnOf(b) = OwnOf(a) \cup OwnOf(d)
    BY <1>1, <1>7, <1>10, <2>1, JoinedIs
  <2> QED BY <1>8, <2>2
<1>12. Fresh(X, b) /\ With(X, b) \in HeapT
  <2>1. Fresh(X, b)
    BY <1>9, <1>11 DEF Fresh
  <2> QED BY <2>1, WithIsHeap
<1>13. /\ With(X, b).own = w.own \cup {c[1].own} /\ With(X, b).blocks = w.blocks
       /\ With(X, b).bad = w.bad /\ With(X, b).lost = w.lost
  <2>1. /\ With(X, b).own = X.own \cup OwnOf(b) /\ With(X, b).blocks = X.blocks + BlockOf(b)
        /\ With(X, b).bad = X.bad /\ With(X, b).lost = X.lost
    BY DEF With
  <2>2. X.own \cup OwnOf(b) = (X.own \cup OwnOf(a)) \cup {c[1].own}
    BY <1>8, <1>11
  <2> QED BY <1>3, <1>11, <2>1, <2>2
<1>14. KeysOf(b) = Added(KeysOf(a), key)
  BY <1>2, <1>7, <1>11 DEF Added
<1> QED BY <1>11, <1>12, <1>13, <1>14 DEF w

LEMMA FilterReturnsStep ==
  ASSUME IInv, FilterReturns
  PROVE  /\ IInv' /\ self' = self /\ InFilter
         /\ run'.op = "filter" /\ run'.keep = run.keep /\ run'.src = run.src
<1> DEFINE i == run.i
           src == run.src
           out == run.out
           key == src.cells[i].key
           c == Cells(heap, <<key>>)
           e == Nothing(heap.lost)
           X == With(With(e, self), src)
           more == [run EXCEPT !.i = i + 1]
<1>1. FilterRuns /\ run.op = "filter" /\ InFilter /\ run.i <= run.src.l /\ self' = self
  BY FilteringIs DEF FilterReturns, Filtering, InFilter, IInv
<1>2. /\ run \in FilterT /\ i \in Nat /\ i \in 1..src.l + 1 /\ i <= src.l
      /\ out.l < i /\ out.null = FALSE /\ src \in ArrayT /\ out \in ArrayT
      /\ Keeps(KeysOf(src), i - 1, KeysOf(out), run.keep)
  BY <1>1 DEF FilterRuns, FilterT
<1>3. Source = src /\ Built = out
  BY <1>1, LocalsWhenFiltering
<1>4. /\ e \in HeapT /\ Fresh(e, self) /\ Fresh(With(e, self), src) /\ Fresh(X, out) /\ heap = With(X, out)
      /\ X \in HeapT /\ heap.lost \in BOOLEAN
  <2>1. heap.lost \in BOOLEAN /\ e \in HeapT /\ Holds(heap, e, self, src, out)
    BY <1>3, NothingIsHeap DEF IInv, Account
  <2> HIDE DEF e
  <2> QED BY <2>1, HoldsHeap DEF Holds
<1>5. /\ src.l \in 0..MaxLen /\ out.l \in 0..MaxLen /\ self.l \in 0..MaxLen
      /\ Good(src) /\ Good(out)
  BY <1>3, AccountOf DEF IInv
<1>6. /\ i \in 1..src.l /\ key \in Keys /\ KeysOf(src)[i] = key /\ out.l + 1 <= MaxLen
      /\ KeysOf(out) \in Seq(Keys)
  <2>1. i \in 1..src.l
    BY <1>2
  <2>2. src.cells[i] \in CellT
    BY <1>5, <2>1, GoodCells
  <2>3. key \in Keys /\ KeysOf(src)[i] = key
    BY <1>5, <2>1, <2>2, KeysAre DEF CellT
  <2>4. out.l + 1 <= MaxLen
    BY <1>2, <1>5, <2>1, ListsAssumption
  <2>5. KeysOf(out) \in Seq(Keys)
    BY <1>5, KeysAre
  <2> QED BY <2>1, <2>3, <2>4, <2>5
<1>7. Room(heap, 1)
  <2>1. 1 <= 2 * MaxLen
    BY <1>5, <1>6, ListsAssumption
  <2> QED BY <2>1, RoomLeft DEF IInv
<1> HIDE DEF X, c
<1>8. CASE key \in run.keep
  <2> DEFINE b == [null |-> FALSE, cells |-> out.cells \o c, l |-> out.l + 1]
             h == [heap EXCEPT !.own = heap.own \cup {c[1].own}]
  <2>1. heap' = h /\ run' = [more EXCEPT !.out.cells = more.out.cells \o c, !.out.l = more.out.l + 1]
    BY <1>8 DEF FilterReturns, c
  <2>2. more \in FilterT /\ more.i = i + 1 /\ more.src = src /\ more.out = out /\ more.keep = run.keep /\ more.op = "filter"
    BY <1>2 DEF FilterT
  <2> HIDE DEF more
  <2>3. out = [null |-> FALSE, cells |-> out.cells, l |-> out.l]
    BY <1>2 DEF ArrayT
  <2>4. run' = [more EXCEPT !.out = b]
    <3>1. run' = [more EXCEPT !.out = [[out EXCEPT !.cells = out.cells \o c] EXCEPT !.l = out.l + 1]]
      BY <2>1, <2>2 DEF FilterT
    <3>2. [[out EXCEPT !.cells = out.cells \o c] EXCEPT !.l = out.l + 1] = b
      <4>1. PICK x, y, z, u : x = out.cells /\ y = out.l /\ z = out.cells \o c /\ u = out.l + 1
        OBVIOUS
      <4>2. out = [null |-> FALSE, cells |-> x, l |-> y]
        BY <2>3, <4>1
      <4>3. PICK v : v = [out EXCEPT !.cells = z]
        OBVIOUS
      <4>4. v = [[null |-> FALSE, cells |-> x, l |-> y] EXCEPT !.cells = z]
        BY <4>2, <4>3
      <4>5. v = [null |-> FALSE, cells |-> z, l |-> y]
        BY <4>4
      <4>6. PICK q : q = [v EXCEPT !.l = u]
        OBVIOUS
      <4>7. q = [[null |-> FALSE, cells |-> z, l |-> y] EXCEPT !.l = u]
        BY <4>5, <4>6
      <4>8. q = [null |-> FALSE, cells |-> z, l |-> u]
        BY <4>7
      <4> QED BY <4>1, <4>3, <4>6, <4>8
    <3> QED BY <3>1, <3>2
  <2>5. c = Cells(With(X, out), <<key>>)
    BY <1>4 DEF c
  <2>6. Room(With(X, out), 1)
    BY <1>4, <1>7
  <2> HIDE DEF b, h
  <2>7. /\ h = With(X, b) /\ Fresh(X, b) /\ b.l = out.l + 1
        /\ KeysOf(b) = KeysOf(out) \o <<key>>
    <3>1. b = [null |-> FALSE, cells |-> out.cells \o c, l |-> out.l + 1]
      BY DEF b
    <3>2. /\ Fresh(X, b) /\ b.l = out.l + 1 /\ KeysOf(b) = KeysOf(out) \o <<key>>
          /\ With(X, b) \in HeapT /\ With(X, b).own = heap.own \cup {c[1].own}
          /\ With(X, b).blocks = heap.blocks
          /\ With(X, b).bad = heap.bad /\ With(X, b).lost = heap.lost
      <4>1. /\ Fresh(X, b) /\ b.l = out.l + 1 /\ KeysOf(b) = KeysOf(out) \o <<key>>
            /\ With(X, b) \in HeapT /\ With(X, b).own = With(X, out).own \cup {c[1].own}
            /\ With(X, b).blocks = With(X, out).blocks
            /\ With(X, b).bad = With(X, out).bad /\ With(X, b).lost = With(X, out).lost
        <5>1. BlockOf(out) = 1 /\ key \in Keys /\ X \in HeapT /\ Fresh(X, out)
          BY <1>2, <1>4, <1>6 DEF BlockOf
        <5>2. c = OneCell(With(X, out), key) /\ b = Appended(out, c)
          BY <2>5, <3>1 DEF OneCell, Appended
        <5>3. PICK x, o, k, d, n : x = X /\ o = out /\ k = key /\ d = c /\ n = b
          OBVIOUS
        <5>4. x \in HeapT /\ Fresh(x, o) /\ BlockOf(o) = 1 /\ k \in Keys /\ Room(With(x, o), 1)
          BY <2>6, <5>1, <5>3
        <5>5. d = OneCell(With(x, o), k) /\ n = Appended(o, d)
          BY <5>2, <5>3
        <5>6. /\ Fresh(x, n) /\ n.l = o.l + 1 /\ KeysOf(n) = Added(KeysOf(o), k)
              /\ With(x, n) \in HeapT /\ With(x, n).own = With(x, o).own \cup {d[1].own}
              /\ With(x, n).blocks = With(x, o).blocks
              /\ With(x, n).bad = With(x, o).bad /\ With(x, n).lost = With(x, o).lost
          BY <5>4, <5>5, OneMore
        <5> QED BY <5>3, <5>6 DEF Added
      <4> QED BY <1>4, <4>1
    <3>3. heap \in HeapT
      BY <1>1, AccountOf DEF IInv
    <3>4. PICK o \in SUBSET Memory : o = heap.own \cup {c[1].own}
      BY <3>2 DEF HeapT
    <3>5. h = [heap EXCEPT !.own = o]
      BY <3>4 DEF h
    <3>6. h \in HeapT /\ h.own = o /\ h.blocks = heap.blocks /\ h.bad = heap.bad /\ h.lost = heap.lost
      BY <3>3, <3>5 DEF HeapT
    <3>7. PICK v \in HeapT : v = With(X, b)
      BY <3>2
    <3>8. h.own = v.own /\ h.blocks = v.blocks /\ h.bad = v.bad /\ h.lost = v.lost
      BY <3>2, <3>4, <3>6, <3>7
    <3>9. h = v
      BY <3>6, <3>8, SameHeap
    <3> QED BY <3>2, <3>7, <3>9
  <2>8. Good(b) /\ b \in ArrayT /\ b.null = FALSE
    BY <2>7 DEF Fresh, Good, ArrayT, b
  <2>9. run' \in FilterT /\ run'.i = i + 1 /\ run'.src = src /\ run'.out = b /\ run'.keep = run.keep /\ run'.op = "filter"
    BY <2>2, <2>4, <2>8 DEF FilterT
  <2>10. Source' = src /\ Built' = b
    <3>1. (run.op = "filter" => Source = run.src /\ Built = run.out)'
      BY LocalsWhenFiltering, PTL
    <3> QED BY <2>9, <3>1
  <2>11. FilterRuns'
    <3>1. Keeps(KeysOf(src), i, KeysOf(b), run.keep)
      <4>1. KeysOf(b) \in Seq(Keys) /\ i - 1 \in Nat /\ (i - 1) + 1 = i
        BY <1>2, <2>8, KeysAre
      <4>2. KeysOf(src)[(i - 1) + 1] = key
        BY <1>6, <4>1
      <4>3. Keeps(KeysOf(src), (i - 1) + 1, KeysOf(b), run.keep)
        BY <1>2, <1>6, <1>8, <2>7, <4>1, <4>2, KeepsMore
      <4> QED BY <4>1, <4>3
    <3>2. run'.i \in 1..run'.src.l + 1 /\ run'.out.l < run'.i /\ run'.out.null = FALSE
      BY <1>2, <1>5, <2>7, <2>8, <2>9
    <3>3. run'.i - 1 = i
      BY <1>2, <2>9
    <3> QED BY <2>9, <3>1, <3>2, <3>3 DEF FilterRuns
  <2>12. Account'
    <3>1. heap'.lost = heap.lost
      <4>1. h.lost = X.lost /\ heap.lost = X.lost
        BY <1>4, <2>7 DEF With
      <4> QED BY <2>1, <4>1
    <3>2. Holds(heap', e, self', Source', Built')
      BY <1>1, <1>4, <2>1, <2>7, <2>10 DEF Holds, X
    <3>3. Nothing(heap'.lost) = e /\ heap'.lost \in BOOLEAN
      BY <1>4, <3>1
    <3>4. self'.l <= MaxLen /\ Source'.l <= MaxLen /\ Built'.l <= MaxLen
      BY <1>1, <1>5, <1>6, <2>7, <2>10, ListsAssumption
    <3> QED BY <3>2, <3>3, <3>4 DEF Account
  <2> QED BY <1>1, <2>9, <2>11, <2>12 DEF IInv, Running
<1>9. CASE key \notin run.keep
  <2>1. heap' = heap /\ run' = more
    BY <1>9 DEF FilterReturns
  <2>2. run' \in FilterT /\ run'.i = i + 1 /\ run'.src = src /\ run'.out = out /\ run'.keep = run.keep /\ run'.op = "filter"
    BY <1>2, <2>1 DEF FilterT
  <2>3. Source' = Source /\ Built' = Built
    <3>1. (run.op = "filter" => Source = run.src /\ Built = run.out)'
      BY LocalsWhenFiltering, PTL
    <3> QED BY <1>3, <2>2, <3>1
  <2>4. FilterRuns'
    <3>1. Keeps(KeysOf(src), i, KeysOf(out), run.keep)
      <4>1. i - 1 \in Nat /\ (i - 1) + 1 = i
        BY <1>2
      <4>2. KeysOf(src)[(i - 1) + 1] = key
        BY <1>6, <4>1
      <4>3. Keeps(KeysOf(src), (i - 1) + 1, KeysOf(out), run.keep)
        BY <1>2, <1>6, <1>9, <4>1, <4>2, KeepsMore
      <4> QED BY <4>1, <4>3
    <3>2. run'.i \in 1..run'.src.l + 1 /\ run'.out.l < run'.i /\ run'.out.null = FALSE
      BY <1>2, <1>5, <2>2
    <3>3. run'.i - 1 = i
      BY <1>2, <2>2
    <3> QED BY <2>2, <3>1, <3>2, <3>3 DEF FilterRuns
  <2>5. Account'
    BY <1>1, <2>1, <2>3 DEF IInv, Account
  <2> QED BY <1>1, <2>2, <2>4, <2>5 DEF IInv, Running
<1> QED BY <1>8, <1>9

-----------------------------------------------------------------------------
(* The steps of _forEach. *)
LEMMA ForEachStep ==
  ASSUME IInv, ForEach
  PROVE  /\ IInv' /\ self' = self /\ run = Free
         /\ run'.op = "forEach" /\ KeysOf(run'.src) = KeysOf(self)
<1> DEFINE s == Copy(heap, self)
           r == [op |-> "forEach", left |-> MaxMeddles, seen |-> <<>>, src |-> s.a]
<1>1. run = Free /\ self' = self /\ heap' = s.h /\ run' = r
  BY DEF ForEach
<1>2. PICK e \in HeapT : e = Nothing(heap.lost) /\ Fresh(e, self) /\ heap = With(e, self)
  BY <1>1, CopyGiven, LocalsWhenFree DEF IInv
<1>3. /\ heap \in HeapT /\ self.l \in 0..MaxLen /\ s.h \in HeapT /\ s.a.l = self.l
      /\ s.h = With(heap, s.a) /\ Fresh(heap, s.a) /\ s.h.lost = heap.lost
      /\ KeysOf(s.a) = KeysOf(self)
  BY <1>1, CopyGiven, LocalsWhenFree DEF IInv, Yields
<1> HIDE DEF s, r
<1>4. Holds(s.h, e, self, s.a, NullArray)
  <2>1. Fresh(s.h, NullArray) /\ With(s.h, NullArray) = s.h
    BY <1>3, WithNull
  <2> QED BY <1>2, <1>3, <2>1 DEF Holds
<1>5. s.a \in ArrayT
  BY <1>3 DEF Fresh, Good, ArrayT
<1>6. r \in VisitT /\ r.op = "forEach" /\ r.seen = <<>> /\ r.src = s.a
  BY <1>5, ListsAssumption DEF VisitT, r
<1>7. ForEachRuns'
  BY <1>1, <1>3, <1>6, EmptySeq DEF ForEachRuns
<1>8. Source' = s.a /\ Built' = NullArray
  <2>1. (run.op = "forEach" => Source = run.src /\ Built = NullArray)'
    BY LocalsWhenVisiting, PTL
  <2> QED BY <1>1, <1>6, <2>1
<1>9. Account'
  <2>1. heap'.lost = heap.lost /\ heap.lost \in BOOLEAN
    BY <1>1, <1>3 DEF IInv, Account
  <2>2. Holds(heap', Nothing(heap'.lost), self', Source', Built')
    BY <1>1, <1>2, <1>4, <1>8, <2>1
  <2>3. NullArray.l = 0
    BY DEF NullArray
  <2>4. self'.l <= MaxLen /\ Source'.l <= MaxLen /\ Built'.l <= MaxLen
    BY <1>1, <1>3, <1>8, <2>3, ListsAssumption
  <2> QED BY <2>1, <2>2, <2>4 DEF Account
<1> QED BY <1>1, <1>3, <1>6, <1>7, <1>9 DEF IInv, Running

LEMMA ForEachReturnsStep ==
  ASSUME IInv, ForEachReturns
  PROVE  /\ IInv' /\ self' = self /\ InForEach
         /\ run'.op = "forEach" /\ run'.src = run.src
<1> DEFINE n == Len(run.seen) + 1
           key == run.src.cells[n].key
<1>1. ForEachRuns /\ run.op = "forEach" /\ InForEach /\ Len(run.seen) < run.src.l
  BY VisitingIs DEF ForEachReturns, Visiting, InForEach, IInv
<1>2. self' = self /\ heap' = heap /\ run' = [run EXCEPT !.seen = Append(run.seen, key)]
  BY DEF ForEachReturns
<1>3. run \in VisitT /\ run.seen \in Seq(Keys) /\ run.src \in ArrayT /\ Len(run.seen) \in Nat
  BY <1>1, LenProperties DEF ForEachRuns, VisitT
<1>4. Source = run.src /\ Built = NullArray /\ Good(run.src) /\ run.src.l \in 0..MaxLen
  BY <1>1, LocalsWhenVisiting, AccountOf DEF IInv
<1>5. n \in 1..run.src.l /\ key \in Keys /\ KeysOf(run.src)[n] = key
  <2>1. n \in 1..run.src.l
    BY <1>1, <1>3, <1>4, ListsAssumption
  <2>2. run.src.cells[n] \in CellT
    BY <1>4, <2>1, GoodCells
  <2> QED BY <1>4, <2>1, <2>2, KeysAre DEF CellT
<1> HIDE DEF key
<1>6. PICK t \in Seq(Keys) : t = Append(run.seen, key)
  BY <1>3, <1>5, AppendProperties
<1>7. Len(t) = n /\ t[n] = key /\ \A j \in 1..Len(run.seen) : t[j] = run.seen[j]
  BY <1>3, <1>5, <1>6, AppendProperties
<1>8. run' = [run EXCEPT !.seen = t]
  BY <1>2, <1>6
<1>9. run' \in VisitT /\ run'.op = "forEach" /\ run'.seen = t /\ run'.src = run.src
  BY <1>3, <1>8 DEF VisitT
<1>10. ForEachRuns'
  <2>1. Len(t) <= run.src.l
    BY <1>5, <1>7
  <2>2. \A j \in 1..Len(t) : t[j] = KeysOf(run.src)[j]
    <3> SUFFICES ASSUME NEW j \in 1..Len(t) PROVE t[j] = KeysOf(run.src)[j]
      OBVIOUS
    <3>1. CASE j = n
      BY <1>5, <1>7, <3>1
    <3>2. CASE j # n
      <4>1. j \in 1..Len(run.seen)
        BY <1>3, <1>7, <3>2
      <4> QED BY <1>1, <1>7, <4>1 DEF ForEachRuns
    <3> QED BY <3>1, <3>2
  <2> QED BY <1>9, <2>1, <2>2 DEF ForEachRuns
<1>11. Source' = Source /\ Built' = Built
  <2>1. (run.op = "forEach" => Source = run.src /\ Built = NullArray)'
    BY LocalsWhenVisiting, PTL
  <2> QED BY <1>4, <1>9, <2>1
<1>12. Account'
  BY <1>2, <1>11 DEF IInv, Account
<1> QED BY <1>1, <1>2, <1>9, <1>10, <1>12 DEF IInv, Running

LEMMA ForEachEndsStep ==
  ASSUME IInv, ForEachEnds
  PROVE  IInv' /\ self' = self /\ run' = Free /\ InForEach
<1>1. self' = self /\ heap' = Freed(heap, run.src) /\ run' = Free /\ run.op = "forEach" /\ InForEach
  BY DEF ForEachEnds, InForEach
<1>2. PICK e \in HeapT : e = Nothing(heap.lost)
  BY NothingIsHeap DEF IInv, Account
<1>3. Holds(heap, e, self, run.src, NullArray)
  BY <1>1, <1>2, LocalsWhenVisiting DEF IInv, Account
<1>4. heap' = With(e, self) /\ Fresh(e, self)
  <2>1. PICK w \in HeapT : w = With(e, self) /\ Fresh(e, self) /\ Fresh(w, run.src)
    BY <1>3, WithIsHeap DEF Holds
  <2>2. heap = With(w, run.src)
    <3>1. PICK v \in HeapT : v = With(w, run.src)
      BY <2>1, WithIsHeap
    <3> QED BY <1>3, <2>1, <3>1, WithNull DEF Holds
  <2> QED BY <1>1, <2>1, <2>2, FreedUndoes
<1>5. Holds(heap', e, self', NullArray, NullArray)
  BY <1>1, <1>4, HoldsOne
<1>6. Source' = NullArray /\ Built' = NullArray
  <2>1. (run = Free => Source = NullArray /\ Built = NullArray)'
    BY LocalsWhenFree, PTL
  <2> QED BY <1>1, <2>1
<1>7. heap'.lost = heap.lost /\ heap.lost \in BOOLEAN
  BY <1>2, <1>4, NothingIsHeap DEF With, IInv, Account
<1>8. NullArray.l <= MaxLen
  BY ListsAssumption DEF NullArray
<1>9. Account'
  BY <1>1, <1>2, <1>5, <1>6, <1>7, <1>8 DEF IInv, Account
<1> QED BY <1>1, <1>9 DEF IInv, Running

-----------------------------------------------------------------------------
(* The callback calls a method of the variable, or throws. *)
LEMMA MeddleStep ==
  ASSUME IInv, NEW m, NEW ks, NEW shortens \in BOOLEAN, Yields(Others, m, ks), Len(ks) <= MaxLen,
         Meddle(m, shortens), ~shortens => self.l <= Len(ks)
  PROVE  /\ IInv' /\ KeysOf(self') = ks /\ InCallback
         /\ run'.op = run.op
         /\ InSort    => run'.cmp = run.cmp /\ run'.short = (run.short \/ shortens)
         /\ InFilter  => run'.keep = run.keep /\ run'.src = run.src
         /\ InForEach => run'.src = run.src
<1>1. Becomes(m) /\ InCallback /\ (InSort \/ InFilter \/ InForEach)
  BY DEF Meddle, InCallback, Sorting, Filtering, Visiting
<1>2. ASSUME Source' = Source, Built' = Built PROVE Account' /\ KeysOf(self') = ks /\ self'.l = Len(ks)
  BY <1>1, <1>2, SelfChanges DEF IInv
<1>3. CASE InSort
  <2>1. SortRuns /\ run.op = "sort"
    BY <1>3, SortingIs DEF IInv, InSort
  <2>2. PICK s \in BOOLEAN : s = (run.short \/ shortens)
    OBVIOUS
  <2>3. PICK left \in Int : left = run.left - 1
    BY <2>1 DEF SortRuns, SortT
  <2>4. run' = [run EXCEPT !.left = left, !.short = s]
    <3>1. run' = [run EXCEPT !.left = run.left - 1, !.short = run.short \/ shortens]
      BY <1>3 DEF Meddle
    <3> QED BY <2>2, <2>3, <3>1
  <2>5. run' \in SortT /\ run'.op = "sort" /\ run'.cmp = run.cmp /\ run'.short = s /\ run'.loop = run.loop
    BY <2>1, <2>4 DEF SortRuns, SortT
  <2>6. Source' = Source /\ Built' = Built
    <3>1. (run.op = "sort" => Source = NullArray /\ Built = NullArray)'
      BY LocalsWhenSorting, PTL
    <3> QED BY <2>1, <2>5, <3>1, LocalsWhenSorting
  <2>7. Account' /\ KeysOf(self') = ks /\ self'.l = Len(ks)
    BY <1>2, <2>6
  <2>8. SortRuns'
    <3>1. ASSUME run'.loop.calling, ~run'.short PROVE run'.loop.i < self'.l
      <4>1. run.loop.calling /\ ~run.short /\ ~shortens
        BY <2>2, <2>5, <3>1
      <4>2. run.loop.i < self.l /\ self.l <= self'.l
        BY <2>1, <2>7, <4>1 DEF SortRuns
      <4>3. run.loop.i \in Int /\ self.l \in Int /\ self'.l \in Int
        <5>1. run.loop.i \in Int
          BY <2>1 DEF SortRuns, SortT, LoopT
        <5>2. (self.l \in 0..MaxLen)'
          BY <2>7, AccountOf, PTL
        <5>3. self'.l \in Int
          BY <5>2, ListsAssumption
        <5> QED BY <5>1, <5>3, AccountOf, ListsAssumption DEF IInv
      <4> QED BY <2>5, <4>2, <4>3
    <3>2. run'.loop.calling => run'.loop.i >= 1
      BY <2>1, <2>5 DEF SortRuns
    <3> QED BY <2>5, <3>1, <3>2 DEF SortRuns
  <2> QED BY <1>1, <1>3, <2>1, <2>2, <2>5, <2>7, <2>8, LocalsWhenSorting DEF IInv, Running
<1>4. CASE InFilter
  <2>1. FilterRuns /\ run.op = "filter" /\ ~InSort /\ ~InForEach
    BY <1>4, FilteringIs, LocalsWhenFiltering DEF IInv, InFilter
  <2>2. PICK left \in Int : left = run.left - 1
    BY <2>1 DEF FilterRuns, FilterT
  <2>3. run' = [run EXCEPT !.left = left]
    BY <2>1, <2>2 DEF Meddle
  <2>4. /\ run' \in FilterT /\ run'.op = "filter" /\ run'.keep = run.keep /\ run'.src = run.src
        /\ run'.out = run.out /\ run'.i = run.i
    BY <2>1, <2>3 DEF FilterRuns, FilterT
  <2>5. Source' = Source /\ Built' = Built
    <3>1. (run.op = "filter" => Source = run.src /\ Built = run.out)'
      BY LocalsWhenFiltering, PTL
    <3> QED BY <2>1, <2>4, <3>1, LocalsWhenFiltering
  <2>6. FilterRuns'
    BY <2>1, <2>4 DEF FilterRuns
  <2> QED BY <1>1, <1>2, <2>1, <2>4, <2>5, <2>6 DEF IInv, Running
<1>5. CASE InForEach
  <2>1. ForEachRuns /\ run.op = "forEach" /\ ~InSort /\ ~InFilter
    BY <1>5, VisitingIs, LocalsWhenVisiting DEF IInv, InForEach
  <2>2. PICK left \in Int : left = run.left - 1
    BY <2>1 DEF ForEachRuns, VisitT
  <2>3. run' = [run EXCEPT !.left = left]
    BY <2>1, <2>2 DEF Meddle
  <2>4. run' \in VisitT /\ run'.op = "forEach" /\ run'.src = run.src /\ run'.seen = run.seen
    BY <2>1, <2>3 DEF ForEachRuns, VisitT
  <2>5. Source' = Source /\ Built' = Built
    <3>1. (run.op = "forEach" => Source = run.src /\ Built = NullArray)'
      BY LocalsWhenVisiting, PTL
    <3> QED BY <2>1, <2>4, <3>1, LocalsWhenVisiting
  <2>6. ForEachRuns'
    BY <2>1, <2>4 DEF ForEachRuns
  <2> QED BY <1>1, <1>2, <2>1, <2>4, <2>5, <2>6 DEF IInv, Running
<1> QED BY <1>1, <1>3, <1>4, <1>5

LEMMA MeddleClearStep ==
  ASSUME IInv, MeddleClear
  PROVE  /\ IInv' /\ KeysOf(self') = <<>> /\ InCallback
         /\ run'.op = run.op
         /\ InSort    => run'.cmp = run.cmp /\ run'.short = TRUE
         /\ InFilter  => run'.keep = run.keep /\ run'.src = run.src
         /\ InForEach => run'.src = run.src
<1>1. Yields(Others, Cleared(heap, self), <<>>)
  BY AccountOf, ClearedIs DEF IInv
<1>2. Len(<<>>) <= MaxLen
  BY ListsAssumption, EmptySeq
<1>3. Meddle(Cleared(heap, self), TRUE) /\ TRUE \in BOOLEAN
  BY DEF MeddleClear
<1> QED BY <1>1, <1>2, <1>3, MeddleStep

LEMMA MeddlePopStep ==
  ASSUME IInv, MeddlePop
  PROVE  /\ IInv' /\ self.l > 0 /\ KeysOf(self') = Front(KeysOf(self)) /\ InCallback
         /\ run'.op = run.op
         /\ InSort    => run'.cmp = run.cmp /\ run'.short = TRUE
         /\ InFilter  => run'.keep = run.keep /\ run'.src = run.src
         /\ InForEach => run'.src = run.src
<1>1. self.l > 0 /\ Meddle(Popped(heap, self), TRUE) /\ TRUE \in BOOLEAN
  BY DEF MeddlePop
<1>2. self.l \in 1..MaxLen /\ Len(KeysOf(self)) = self.l /\ KeysOf(self) \in Seq(Keys)
  BY <1>1, SelfKeys, ListsAssumption DEF IInv
<1>3. Yields(Others, Popped(heap, self), Front(KeysOf(self)))
  BY <1>1, AccountOf, PoppedIs DEF IInv
<1>4. Len(Front(KeysOf(self))) <= MaxLen
  BY <1>2, FrontIs, ListsAssumption
<1> QED BY <1>1, <1>3, <1>4, MeddleStep

LEMMA MeddlePushStep ==
  ASSUME IInv, NEW k \in Keys, MeddlePush(k)
  PROVE  /\ IInv' /\ KeysOf(self') = Append(KeysOf(self), k) /\ InCallback
         /\ run'.op = run.op
         /\ InSort    => run'.cmp = run.cmp /\ run'.short = run.short
         /\ InFilter  => run'.keep = run.keep /\ run'.src = run.src
         /\ InForEach => run'.src = run.src
<1>1. self.l < MaxLen /\ Meddle(Pushed(heap, self, <<k>>), FALSE) /\ FALSE \in BOOLEAN
  BY DEF MeddlePush
<1>2. self.l \in 0..MaxLen /\ Len(KeysOf(self)) = self.l /\ KeysOf(self) \in Seq(Keys)
  BY SelfKeys DEF IInv
<1>3. PICK ks \in Seq(Keys) : ks = <<k>> /\ Len(ks) = 1
  <2>1. <<k>> \in Seq(Keys) /\ Len(<<k>>) = 1
    OBVIOUS
  <2> QED BY <2>1
<1>4. Room(heap, Len(ks))
  <2>1. 1 <= 2 * MaxLen
    BY <1>1, <1>2, ListsAssumption
  <2> QED BY <1>3, <2>1, RoomLeft DEF IInv
<1>5. Yields(Others, Pushed(heap, self, ks), KeysOf(self) \o ks)
  BY <1>3, <1>4, AccountOf, PushedIs DEF IInv
<1>6. Len(KeysOf(self) \o ks) = self.l + 1
  BY <1>2, <1>3, ConcatIs
<1>7. /\ IInv' /\ KeysOf(self') = KeysOf(self) \o ks /\ InCallback
      /\ run'.op = run.op
      /\ InSort    => run'.cmp = run.cmp /\ run'.short = (run.short \/ FALSE)
      /\ InFilter  => run'.keep = run.keep /\ run'.src = run.src
      /\ InForEach => run'.src = run.src
  <2>1. Meddle(Pushed(heap, self, ks), FALSE)
    BY <1>1, <1>3
  <2>2. Len(KeysOf(self) \o ks) <= MaxLen /\ self.l <= Len(KeysOf(self) \o ks)
    BY <1>1, <1>2, <1>6, ListsAssumption
  <2> QED BY <1>1, <1>5, <2>1, <2>2, MeddleStep
<1>8. InSort => run.short \in BOOLEAN
  BY SortingIs DEF IInv, SortRuns, SortT
<1>9. KeysOf(self) \o <<k>> = Append(KeysOf(self), k)
  BY <1>2
<1> QED BY <1>3, <1>7, <1>8, <1>9

LEMMA CallbackThrowsStep ==
  ASSUME IInv, CallbackThrows
  PROVE  IInv' /\ self' = self /\ run' = Free /\ InCallback
<1> DEFINE lost2 == heap.lost \/ InFilter \/ InForEach
           h == Freed(Freed(heap, Source), Built)
<1>1. InCallback /\ self' = self /\ run' = Free /\ heap' = [h EXCEPT !.lost = h.lost \/ InFilter \/ InForEach]
  BY DEF CallbackThrows
<1>2. PICK e \in HeapT : e = Nothing(heap.lost)
  BY NothingIsHeap DEF IInv, Account
<1>3. h = With(e, self) /\ Fresh(e, self)
  BY <1>2, BothFreed DEF Holds, IInv, Account
<1>4. PICK lost \in BOOLEAN : lost = (h.lost \/ InFilter \/ InForEach)
  OBVIOUS
<1>5. PICK f \in HeapT : f = Nothing(lost)
  BY NothingIsHeap
<1>6. /\ f.own = e.own /\ f.blocks = e.blocks /\ f.bad = e.bad /\ f.lost = lost
  BY <1>2, <1>5, NothingIsHeap DEF IInv, Account
<1>7. Fresh(f, self)
  BY <1>3, <1>6 DEF Fresh
<1>8. heap' = With(f, self)
  <2>1. PICK w \in HeapT : w = With(e, self)
    BY <1>3, WithIsHeap
  <2>2. PICK v \in HeapT : v = With(f, self)
    BY <1>7, WithIsHeap
  <2>3. v.own = w.own /\ v.blocks = w.blocks /\ v.bad = w.bad /\ v.lost = lost
    BY <1>6, <2>1, <2>2 DEF With
  <2>4. PICK u : u = [w EXCEPT !.lost = lost]
    OBVIOUS
  <2>5. u \in HeapT /\ u.own = w.own /\ u.blocks = w.blocks /\ u.bad = w.bad /\ u.lost = lost
    BY <2>4 DEF HeapT
  <2>6. u = v
    BY <2>3, <2>5, SameHeap
  <2>7. heap' = u
    BY <1>1, <1>3, <1>4, <2>1, <2>4
  <2> QED BY <2>2, <2>6, <2>7
<1>9. Holds(heap', f, self', NullArray, NullArray)
  BY <1>1, <1>7, <1>8, HoldsOne
<1>10. Source' = NullArray /\ Built' = NullArray
  <2>1. (run = Free => Source = NullArray /\ Built = NullArray)'
    BY LocalsWhenFree, PTL
  <2> QED BY <1>1, <2>1
<1>11. heap'.lost = lost
  BY <1>6, <1>8 DEF With
<1>12. NullArray.l <= MaxLen
  BY ListsAssumption DEF NullArray
<1>13. Account'
  BY <1>1, <1>5, <1>9, <1>10, <1>11, <1>12 DEF IInv, Account
<1> QED BY <1>1, <1>13 DEF IInv, Running

-----------------------------------------------------------------------------
(* The methods that answer: the heap is as it was, and the answer is that  *)
(* of the list.                                                            *)
LEMMA SaysIs ==
  ASSUME NEW H \in HeapT, NEW s, NEW ks, Yields(H, s, ks), NEW v
  PROVE  Says(s, v).h = H /\ Says(s, v).v = <<v>>
<1>1. Freed(s.h, s.a) = H
  BY FreedUndoes DEF Yields
<1> QED BY <1>1 DEF Says

LEMMA MakesIs ==
  ASSUME NEW H \in HeapT, NEW a, Fresh(H, a), NEW h, h = With(H, a)
  PROVE  Makes(h, a).h = H /\ Makes(h, a).v = <<KeysOf(a)>>
<1>1. Freed(h, a) = H
  BY FreedUndoes
<1>2. PICK s : s = [h |-> h, a |-> a]
  OBVIOUS
<1>3. s.h = h /\ s.a = a
  BY <1>2
<1>4. Makes(h, a) = Says(s, KeysOf(a))
  BY <1>2 DEF Makes
<1> QED BY <1>1, <1>3, <1>4 DEF Says

(* What is made of a copy that is then freed. *)
(* An answer, and the heap it leaves. *)
Tells(r, h, v) == r.h = h /\ r.v = <<v>>

LEMMA MadeOfCopy ==
  ASSUME NEW H \in HeapT, NEW a, Fresh(H, a), NEW h, h = With(H, a),
         NEW m, NEW ks, Yields(h, m, ks)
  PROVE  Tells(Makes(Freed(m.h, a), m.a), H, ks)
<1>1. Fresh(With(H, a), m.a) /\ m.h = With(With(H, a), m.a) /\ KeysOf(m.a) = ks
  BY DEF Yields
<1>2. Fresh(H, m.a) /\ Fresh(With(H, m.a), a) /\ m.h = With(With(H, m.a), a)
  BY <1>1, WithCommutes
<1>3. PICK w \in HeapT : w = With(H, m.a)
  BY <1>2, WithIsHeap
<1>4. Freed(m.h, a) = w
  BY <1>2, <1>3, FreedUndoes
<1> QED BY <1>1, <1>2, <1>3, <1>4, MakesIs DEF Tells

LEMMA ReversedIs ==
  ASSUME NEW H \in HeapT, NEW ks \in Seq(Keys), NEW s, Yields(H, s, ks), Room(s.h, Len(ks))
  PROVE  Reversed(s).h = H /\ Reversed(s).v = <<Reverse(ks)>>
<1> DEFINE k2 == [i \in 1..s.a.l |-> s.a.cells[s.a.l - (i - 1)].key]
           m == Made(s.h, k2)
<1>1. s.a.l = Len(ks) /\ KeysOf(s.a) = ks /\ Good(s.a) /\ s.h = With(H, s.a) /\ Fresh(H, s.a) /\ Len(ks) \in Nat
  BY LenProperties DEF Yields, Fresh
<1>2. \A i \in 1..Len(ks) : ks[i] = s.a.cells[i].key /\ ks[i] \in Keys
  BY <1>1, KeysAre, ElementOfSeq
<1>3. s.h \in HeapT
  BY <1>1, WithIsHeap
<1>4. ASSUME NEW i \in 1..Len(ks) PROVE Len(ks) - (i - 1) \in 1..Len(ks) /\ Len(ks) - (i - 1) = (Len(ks) - i) + 1
  BY <1>1
<1>5. k2 = [i \in 1..Len(ks) |-> ks[(Len(ks) - i) + 1]]
  BY <1>1, <1>2, <1>4
<1>6. k2 = Reverse(ks)
  BY <1>5 DEF Reverse
<1>7. k2 \in Seq(Keys) /\ Len(k2) = Len(ks)
  <2>1. k2 \in [1..Len(ks) -> Keys]
    BY <1>2, <1>4, <1>5
  <2> QED BY <1>1, <2>1, IsSequence
<1>8. Reversed(s) = IF s.a.l = 0 THEN Says(s, <<>>) ELSE Makes(Freed(m.h, s.a), m.a)
  BY DEF Reversed
<1> HIDE DEF k2, m
<1>9. CASE s.a.l = 0
  <2>1. Reverse(ks) = <<>>
    BY <1>1, <1>6, <1>7, <1>9, EmptySeq
  <2> QED BY <1>8, <1>9, <2>1, SaysIs
<1>10. CASE s.a.l # 0
  <2>1. Yields(s.h, m, k2)
    BY <1>3, <1>7, MadeIs DEF m
  <2>2. Makes(Freed(m.h, s.a), m.a).h = H /\ Makes(Freed(m.h, s.a), m.a).v = <<k2>>
    <3>1. PICK x, h, a : /\ x = m /\ h = s.h /\ a = s.a
                         /\ Yields(h, x, k2) /\ Fresh(H, a) /\ h = With(H, a)
      BY <2>1 DEF Yields
    <3>2. Tells(Makes(Freed(x.h, a), x.a), H, k2)
      BY <3>1, MadeOfCopy
    <3> QED BY <3>1, <3>2 DEF Tells
  <2>3. PICK r : r = Makes(Freed(m.h, s.a), m.a)
    OBVIOUS
  <2>4. Reversed(s) = r
    BY <1>8, <1>10, <2>3
  <2>5. r.h = H /\ r.v = <<Reverse(ks)>>
    BY <1>6, <2>2, <2>3
  <2> QED BY <2>4, <2>5
<1> QED BY <1>9, <1>10

LEMMA ContainsIs ==
  ASSUME NEW H \in HeapT, NEW ks \in Seq(Keys), NEW s, Yields(H, s, ks), NEW key
  PROVE  ContainsKey(s, key).h = H /\ ContainsKey(s, key).v = <<key \in ToSet(ks)>>
<1>1. s.a.l = Len(ks) /\ KeysOf(s.a) = ks /\ Good(s.a) /\ DOMAIN ks = 1..Len(ks)
  BY LenProperties DEF Yields, Fresh
<1>2. \A i \in 1..Len(ks) : ks[i] = s.a.cells[i].key
  BY <1>1, KeysAre
<1>3. (\E i \in 1..s.a.l : s.a.cells[i].key = key) <=> key \in ToSet(ks)
  BY <1>1, <1>2 DEF ToSet
<1>4. (\E i \in 1..s.a.l : s.a.cells[i].key = key) = (key \in ToSet(ks))
  <2> DEFINE p == \E i \in 1..s.a.l : s.a.cells[i].key = key
             q == key \in ToSet(ks)
  <2>1. p \in BOOLEAN /\ q \in BOOLEAN /\ (p <=> q)
    BY <1>3
  <2> HIDE DEF p, q
  <2>2. p = q
    BY <2>1
  <2> QED BY <2>2 DEF p, q
<1>5. ContainsKey(s, key) = Says(s, key \in ToSet(ks))
  BY <1>4 DEF ContainsKey
<1>6. PICK b : b = (key \in ToSet(ks))
  OBVIOUS
<1>7. Says(s, b).h = H /\ Says(s, b).v = <<b>>
  BY SaysIs
<1> QED BY <1>5, <1>6, <1>7

LEMMA ConcatAnswers ==
  ASSUME NEW H \in HeapT, NEW ks \in Seq(Keys), NEW s, Yields(H, s, ks),
         NEW other \in Seq(Keys), NEW n, Yields(s.h, n, other), Room(n.h, Len(ks) + Len(other))
  PROVE  Concat(s, n).h = H /\ Concat(s, n).v = <<ks \o other>>
<1> DEFINE m == Made(n.h, KeysOf(s.a) \o KeysOf(n.a))
<1>1. /\ KeysOf(s.a) = ks /\ s.h = With(H, s.a) /\ Fresh(H, s.a)
      /\ KeysOf(n.a) = other /\ n.h = With(s.h, n.a) /\ Fresh(s.h, n.a)
  BY DEF Yields
<1>2. s.h \in HeapT /\ n.h \in HeapT
  <2>1. s.h \in HeapT
    BY <1>1, WithIsHeap
  <2> QED BY <1>1, <2>1, WithIsHeap
<1>3. ks \o other \in Seq(Keys) /\ Len(ks \o other) = Len(ks) + Len(other)
  BY ConcatIs
<1>4. Yields(n.h, m, ks \o other)
  <2>1. PICK k2 \in Seq(Keys) : k2 = ks \o other /\ Len(k2) = Len(ks) + Len(other)
    BY <1>3
  <2>2. Yields(n.h, Made(n.h, k2), k2)
    BY <1>2, <2>1, MadeIs
  <2> QED BY <1>1, <2>1, <2>2
<1>5. Concat(s, n) = Makes(Freed(Freed(m.h, n.a), s.a), m.a)
  BY DEF Concat
<1> HIDE DEF m
<1>6. m.h = With(n.h, m.a) /\ Fresh(n.h, m.a) /\ KeysOf(m.a) = ks \o other
  BY <1>4 DEF Yields
<1>7. Holds(m.h, H, s.a, n.a, m.a)
  BY <1>1, <1>6 DEF Holds
<1>8. Holds(m.h, H, m.a, n.a, s.a)
  <2>1. Holds(m.h, H, n.a, m.a, s.a)
    BY <1>7, Rotation
  <2>2. Holds(m.h, H, m.a, s.a, n.a)
    BY <2>1, Rotation
  <2>3. Holds(m.h, H, s.a, n.a, m.a)
    BY <2>2, Rotation
  <2>4. Fresh(H, n.a) /\ Fresh(With(H, n.a), m.a) /\ m.h = With(With(With(H, n.a), m.a), s.a)
        /\ Fresh(With(With(H, n.a), m.a), s.a)
    BY <2>1 DEF Holds
  <2>5. Fresh(H, m.a) /\ Fresh(With(H, m.a), n.a) /\ With(With(H, n.a), m.a) = With(With(H, m.a), n.a)
    BY <2>4, WithCommutes
  <2> QED BY <2>4, <2>5 DEF Holds
<1>9. Freed(Freed(m.h, n.a), s.a) = With(H, m.a) /\ Fresh(H, m.a)
  BY <1>8, BothFreed DEF Holds
<1> QED BY <1>5, <1>6, <1>9, MakesIs

LEMMA EqualIs ==
  ASSUME NEW H \in HeapT, NEW ks \in Seq(Keys), NEW s, Yields(H, s, ks),
         NEW other \in Seq(Keys), NEW n, Yields(s.h, n, other), NEW v
  PROVE  /\ Both(s, n, v).h = H /\ Both(s, n, v).v = <<v>>
         /\ Equal(s, n) <=> ks = other
<1>1. /\ KeysOf(s.a) = ks /\ s.h = With(H, s.a) /\ Fresh(H, s.a) /\ s.a.l = Len(ks)
      /\ KeysOf(n.a) = other /\ n.h = With(s.h, n.a) /\ Fresh(s.h, n.a) /\ n.a.l = Len(other)
      /\ Good(s.a) /\ Good(n.a)
  BY DEF Yields, Fresh
<1>2. /\ \A i \in 1..Len(ks) : ks[i] = s.a.cells[i].key
      /\ \A i \in 1..Len(other) : other[i] = n.a.cells[i].key
  BY <1>1, KeysAre
<1>3. PICK w \in HeapT : w = With(H, s.a) /\ Fresh(w, n.a) /\ n.h = With(w, n.a)
  BY <1>1, WithIsHeap
<1>4. Fresh(H, n.a) /\ n.h = With(With(H, n.a), s.a) /\ Fresh(With(H, n.a), s.a)
  BY <1>1, <1>3, WithCommutes
<1>5. Freed(Freed(n.h, s.a), n.a) = H
  <2>1. PICK y \in HeapT : y = With(H, n.a)
    BY <1>4, WithIsHeap
  <2>2. Freed(n.h, s.a) = y
    BY <1>4, <2>1, FreedUndoes
  <2> QED BY <1>4, <2>1, <2>2, FreedUndoes
<1>6. ks \in [1..Len(ks) -> Keys] /\ other \in [1..Len(other) -> Keys] /\ Len(ks) \in Nat /\ Len(other) \in Nat
  BY LenProperties
<1>7. Equal(s, n) <=> Len(ks) = Len(other) /\ \A i \in 1..Len(ks) : ks[i] = other[i]
  BY <1>1, <1>2 DEF Equal
<1>8. Equal(s, n) <=> ks = other
  <2>1. Len(ks) = Len(other) /\ (\A i \in 1..Len(ks) : ks[i] = other[i]) => ks = other
    BY SeqEqual
  <2> QED BY <1>7, <2>1
<1> QED BY <1>5, <1>8 DEF Both

LEMMA BoundedIs ==
  ASSUME NEW ks \in Seq(Keys), NEW i \in Int
  PROVE  List!Clamp(ks, i) = Bounded(Len(ks), i) /\ Bounded(Len(ks), i) \in 0..Len(ks)
<1>1. Len(ks) \in Nat
  BY LenProperties
<1> QED BY <1>1 DEF List!Clamp, Bounded

LEMMA SliceIs ==
  ASSUME NEW H \in HeapT, NEW ks \in Seq(Keys), NEW s, Yields(H, s, ks), Room(s.h, Len(ks)),
         NEW c, c.from \in Int, c.to \in Int
  PROVE  /\ Slice(s, c).h = H
         /\ Slice(s, c).v = <<SubSeq(ks, List!Clamp(ks, c.from) + 1,
                                     IF c.toEnd THEN Len(ks) ELSE List!Clamp(ks, c.to))>>
<1> DEFINE i1 == Bounded(s.a.l, c.from)
           i2 == IF c.toEnd THEN s.a.l ELSE Bounded(s.a.l, c.to)
           k2 == [i \in 1..i2 - i1 |-> s.a.cells[i1 + i].key]
           m  == Made(s.h, k2)
           t  == SubSeq(ks, List!Clamp(ks, c.from) + 1,
                        IF c.toEnd THEN Len(ks) ELSE List!Clamp(ks, c.to))
<1>1. s.a.l = Len(ks) /\ KeysOf(s.a) = ks /\ Good(s.a) /\ s.h = With(H, s.a) /\ Fresh(H, s.a) /\ Len(ks) \in Nat
  BY LenProperties DEF Yields, Fresh
<1>2. \A i \in 1..Len(ks) : ks[i] = s.a.cells[i].key /\ ks[i] \in Keys
  BY <1>1, KeysAre, ElementOfSeq
<1>3. s.h \in HeapT
  BY <1>1, WithIsHeap
<1>4. /\ i1 \in 0..Len(ks) /\ i2 \in 0..Len(ks)
      /\ t = SubSeq(ks, i1 + 1, i2)
  <2>1. PICK x \in 0..Len(ks) : x = Bounded(Len(ks), c.from) /\ x = List!Clamp(ks, c.from)
    BY BoundedIs
  <2>2. PICK y \in 0..Len(ks) : y = Bounded(Len(ks), c.to) /\ y = List!Clamp(ks, c.to)
    BY BoundedIs
  <2>3. i1 = x /\ i2 = IF c.toEnd THEN Len(ks) ELSE y
    BY <1>1, <2>1, <2>2
  <2>4. t = SubSeq(ks, x + 1, IF c.toEnd THEN Len(ks) ELSE y)
    BY <2>1, <2>2
  <2> HIDE DEF i1, i2, t
  <2>5. t = SubSeq(ks, i1 + 1, i2)
    BY <2>3, <2>4
  <2> QED BY <1>1, <2>3, <2>5
<1>5. Slice(s, c) = IF i1 > i2 \/ i1 >= s.a.l THEN Says(s, <<>>) ELSE Makes(Freed(m.h, s.a), m.a)
  BY DEF Slice
<1> HIDE DEF i1, i2, t
<1>6. t \in Seq(Keys) /\ Len(t) = (IF i1 + 1 <= i2 THEN i2 - (i1 + 1) + 1 ELSE 0)
      /\ \A i \in 1..i2 - (i1 + 1) + 1 : t[i] = ks[(i1 + 1) + i - 1]
  <2>1. \A i \in i1 + 1..i2 : ks[i] \in Keys
    BY <1>1, <1>2, <1>4
  <2>2. i1 + 1 \in Int /\ i2 \in Int
    BY <1>4
  <2> QED BY <1>4, <2>1, <2>2, SubSeqProperties
<1>7. CASE i1 > i2 \/ i1 >= s.a.l
  <2>1. Len(t) = 0
    BY <1>1, <1>4, <1>6, <1>7
  <2>2. t = <<>>
    BY <1>6, <2>1, EmptySeq
  <2>3. Says(s, <<>>).h = H /\ Says(s, <<>>).v = << <<>> >>
    BY SaysIs
  <2> QED BY <1>5, <1>7, <2>2, <2>3 DEF t
<1>8. CASE ~(i1 > i2 \/ i1 >= s.a.l)
  <2>1. Len(t) = i2 - i1 /\ i2 - i1 \in 0..Len(ks)
    BY <1>1, <1>4, <1>6, <1>8
  <2>2. k2 = t
    <3>1. \A i \in 1..i2 - i1 : k2[i] = t[i] /\ k2[i] \in Keys
      <4> SUFFICES ASSUME NEW i \in 1..i2 - i1 PROVE k2[i] = t[i] /\ k2[i] \in Keys
        OBVIOUS
      <4>1. i1 + i \in 1..Len(ks) /\ i \in 1..i2 - (i1 + 1) + 1 /\ (i1 + 1) + i - 1 = i1 + i
        BY <1>1, <1>4
      <4>2. t[i] = ks[i1 + i]
        BY <1>6, <4>1
      <4> QED BY <1>2, <4>1, <4>2
    <3>2. k2 \in [1..i2 - i1 -> Keys]
      BY <3>1
    <3> HIDE DEF k2
    <3>3. k2 \in Seq(Keys) /\ Len(k2) = i2 - i1
      BY <2>1, <3>2, IsSequence
    <3> QED BY <1>6, <2>1, <3>1, <3>3, SeqEqual
  <2> HIDE DEF k2, m
  <2>3. Room(s.h, Len(t))
    <3>1. Cardinality(s.h.own) \in Nat
      BY <1>3, AvailableCount
    <3> QED BY <1>1, <2>1, <3>1, MemoryIsFinite DEF Room
  <2>4. Yields(s.h, m, t)
    BY <1>3, <1>6, <2>2, <2>3, MadeIs DEF m
  <2>5. Makes(Freed(m.h, s.a), m.a).h = H /\ Makes(Freed(m.h, s.a), m.a).v = <<t>>
    <3>1. PICK x, h, a : /\ x = m /\ h = s.h /\ a = s.a
                         /\ Yields(h, x, t) /\ Fresh(H, a) /\ h = With(H, a)
      BY <2>4 DEF Yields
    <3>2. Tells(Makes(Freed(x.h, a), x.a), H, t)
      BY <3>1, MadeOfCopy
    <3> QED BY <3>1, <3>2 DEF Tells
  <2>6. PICK r : r = Makes(Freed(m.h, s.a), m.a)
    OBVIOUS
  <2>7. Slice(s, c) = r
    BY <1>5, <1>8, <2>6
  <2>8. r.h = H /\ r.v = <<t>>
    BY <2>5, <2>6
  <2> QED BY <2>7, <2>8 DEF t
<1> QED BY <1>7, <1>8

LEMMA PlaceIs ==
  ASSUME NEW ks \in Seq(Keys), NEW n \in Int
  PROVE  /\ List!Place(ks, n) = Cell(Len(ks), n)
         /\ List!Inside(ks, n) <=> ~OutOfBounds(Len(ks), n)
<1>1. Len(ks) \in Nat /\ DOMAIN ks = 1..Len(ks)
  BY LenProperties
<1>2. List!Place(ks, n) = Cell(Len(ks), n)
  BY <1>1 DEF List!Place, Cell
<1> QED BY <1>1, <1>2 DEF List!Inside, Cell, OutOfBounds

LEMMA AtIs ==
  ASSUME NEW a, Good(a), NEW n \in Int
  PROVE  At(a, n) = IF List!Inside(KeysOf(a), n) THEN <<KeysOf(a)[List!Place(KeysOf(a), n)]>> ELSE List!Error
<1>1. PICK ks \in Seq(Keys) : ks = KeysOf(a) /\ Len(ks) = a.l /\ \A i \in 1..a.l : ks[i] = a.cells[i].key
  BY KeysAre
<1>2. a.l \in Nat /\ DOMAIN a.cells = 1..a.l
  BY GoodCells
<1>3. List!Place(ks, n) = Cell(a.l, n) /\ (List!Inside(ks, n) <=> ~OutOfBounds(a.l, n))
  BY <1>1, PlaceIs
<1>4. CASE OutOfBounds(a.l, n)
  BY <1>1, <1>3, <1>4 DEF At, Throws, List!Error
<1>5. CASE ~OutOfBounds(a.l, n)
  <2>1. Cell(a.l, n) \in 1..a.l
    BY <1>2, <1>5, CellInside
  <2>2. Read(a, Cell(a.l, n)) = ks[Cell(a.l, n)]
    BY <1>1, <1>2, <2>1 DEF Read
  <2> QED BY <1>1, <1>3, <1>5, <2>2 DEF At
<1> QED BY <1>4, <1>5

LEMMA EndsAre ==
  ASSUME NEW a, Good(a)
  PROVE  /\ First(a) = IF KeysOf(a) = <<>> THEN List!Error ELSE <<Head(KeysOf(a))>>
         /\ LastOf(a) = IF KeysOf(a) = <<>> THEN List!Error ELSE <<Last(KeysOf(a))>>
<1>1. PICK ks \in Seq(Keys) : ks = KeysOf(a) /\ Len(ks) = a.l /\ \A i \in 1..a.l : ks[i] = a.cells[i].key
  BY KeysAre
<1>2. a.l \in Nat /\ DOMAIN a.cells = 1..a.l /\ (ks = <<>> <=> a.l = 0)
  BY <1>1, GoodCells, EmptySeq
<1>3. CASE a.l = 0
  BY <1>1, <1>2, <1>3 DEF First, LastOf, Throws, List!Error
<1>4. CASE a.l # 0
  <2>1. 1 \in 1..a.l /\ a.l \in 1..a.l
    BY <1>2, <1>4
  <2>2. Read(a, 1) = ks[1] /\ Read(a, a.l) = ks[Len(ks)]
    BY <1>1, <1>2, <2>1 DEF Read
  <2>3. Head(ks) = ks[1] /\ Last(ks) = ks[Len(ks)]
    BY <1>2, <1>4, HeadTailProperties DEF Last
  <2> QED BY <1>1, <1>2, <1>4, <2>2, <2>3 DEF First, LastOf
<1> QED BY <1>3, <1>4

LEMMA SameOperators ==
  ASSUME NEW t, NEW i
  PROVE  /\ List!Last(t) = Last(t) /\ List!Front(t) = Front(t) /\ List!Reverse(t) = Reverse(t)
         /\ List!ToSet(t) = ToSet(t) /\ List!RemoveAt(t, i) = RemoveAt(t, i)
BY DEF List!Last, List!Front, List!Reverse, List!ToSet, List!RemoveAt, Last, Front, Reverse, ToSet, RemoveAt

(* There is memory for a copy, for an argument and for what they make. *)
LEMMA RoomBeside ==
  ASSUME NEW h, NEW l \in Nat, l <= MaxLen, NEW n \in Nat, n <= MaxLen
  PROVE  /\ Cardinality(h.own) = l + l => Room(h, n)
         /\ Cardinality(h.own) = (l + l) + n => Room(h, l + n)
BY ListsAssumption, MemoryAssumption, MemoryIsFinite DEF Room

(* Every answer is the list's, and is given without a trace. *)
LEMMA Answered ==
  ASSUME IInv, run = Free, NEW c \in Questions
  PROVE  Answer(c).h = heap /\ Answer(c).v = List!Reply(c, KeysOf(self))
<1> DEFINE s == Copy(heap, self)
           n == Alloc(s.h, c.other)
<1>1. PICK H \in HeapT : H = heap
  BY AccountOf DEF IInv
<1>2. PICK ks \in Seq(Keys) : ks = KeysOf(self) /\ Len(ks) = self.l /\ self.l \in 0..MaxLen
  BY SelfKeys DEF IInv
<1>3. Len(ks) \in Nat /\ Len(ks) <= MaxLen
  BY <1>2, ListsAssumption
<1>4. /\ Good(self) /\ Yields(H, s, ks) /\ s.a.l = Len(ks) /\ s.h \in HeapT
      /\ Cardinality(s.h.own) = Len(ks) + Len(ks)
  BY <1>1, <1>2, CopyGiven, LocalsWhenFree DEF IInv
<1> HIDE DEF s
<1>5. Room(s.h, Len(ks))
  BY <1>3, <1>4, ListsAssumption, MemoryAssumption, MemoryIsFinite DEF Room
<1>6. ASSUME c.other \in Lists
      PROVE  /\ c.other \in Seq(Keys) /\ Yields(s.h, n, c.other)
             /\ Room(n.h, Len(ks) + Len(c.other))
  <2>1. PICK o \in Seq(Keys) : o = c.other /\ Len(o) \in Nat /\ Len(o) <= MaxLen
    BY <1>6, ListIs
  <2>2. Room(s.h, Len(o))
    BY <1>3, <1>4, <2>1, RoomBeside
  <2>3. Yields(s.h, n, o)
    BY <1>4, <2>1, <2>2, AllocIs
  <2> HIDE DEF n
  <2>4. Cardinality(n.h.own) = Cardinality(s.h.own) + Len(o)
    BY <1>4, <2>3, WithIsHeap DEF Yields
  <2>5. Room(n.h, Len(ks) + Len(o))
    BY <1>3, <1>4, <2>1, <2>4, RoomBeside
  <2> QED BY <2>1, <2>3, <2>5
<1> HIDE DEF n
<1>7. CASE c.op = "at" /\ c.i \in Indexes
  <2>1. Answer(c) = [h |-> heap, v |-> At(self, c.i)]
    BY <1>7 DEF Answer
  <2>2. c.i \in Int
    BY <1>7, ListsAssumption
  <2>3. At(self, c.i) = IF List!Inside(ks, c.i) THEN <<ks[List!Place(ks, c.i)]>> ELSE List!Error
    BY <1>2, <1>4, <2>2, AtIs
  <2>4. List!Reply(c, ks) = IF List!Inside(ks, c.i) THEN <<ks[List!Place(ks, c.i)]>> ELSE List!Error
    BY <1>7 DEF List!Reply
  <2> QED BY <1>2, <2>1, <2>3, <2>4
<1>8. CASE c.op = "first"
  <2>1. Answer(c) = [h |-> heap, v |-> First(self)]
    BY <1>8 DEF Answer
  <2>2. List!Reply(c, ks) = IF ks = <<>> THEN List!Error ELSE <<Head(ks)>>
    BY <1>8 DEF List!Reply
  <2> QED BY <1>2, <1>4, <2>1, <2>2, EndsAre, SameOperators
<1>9. CASE c.op = "last"
  <2>1. Answer(c) = [h |-> heap, v |-> LastOf(self)]
    BY <1>9 DEF Answer
  <2>2. List!Reply(c, ks) = IF ks = <<>> THEN List!Error ELSE <<Last(ks)>>
    BY <1>9, SameOperators DEF List!Reply
  <2>3. LastOf(self) = IF ks = <<>> THEN List!Error ELSE <<Last(ks)>>
    BY <1>2, <1>4, EndsAre
  <2> QED BY <1>2, <2>1, <2>2, <2>3
<1>10. CASE c.op = "len"
  <2>1. Answer(c) = Says(s, s.a.l)
    BY <1>10 DEF Answer, s
  <2>2. List!Reply(c, ks) = <<Len(ks)>>
    BY <1>10 DEF List!Reply
  <2>3. Says(s, s.a.l).h = H /\ Says(s, s.a.l).v = <<s.a.l>>
    BY <1>4, SaysIs
  <2> QED BY <1>1, <1>2, <1>4, <2>1, <2>2, <2>3
<1>11. CASE c.op = "empty"
  <2>1. Answer(c) = Says(s, Len(ks) = 0)
    BY <1>4, <1>11 DEF Answer, s
  <2>2. List!Reply(c, ks) = <<Len(ks) = 0>>
    BY <1>11 DEF List!Reply
  <2>3. PICK b : b = (Len(ks) = 0)
    OBVIOUS
  <2>4. Says(s, b).h = H /\ Says(s, b).v = <<b>>
    BY <1>4, SaysIs
  <2> QED BY <1>1, <1>2, <2>1, <2>2, <2>3, <2>4
<1>12. CASE c.op = "str"
  <2>1. Answer(c) = Says(s, KeysOf(s.a))
    BY <1>12 DEF Answer, s, StrOf
  <2>2. List!Reply(c, ks) = <<ks>>
    BY <1>12 DEF List!Reply
  <2>3. Says(s, ks).h = H /\ Says(s, ks).v = <<ks>> /\ KeysOf(s.a) = ks
    BY <1>4, SaysIs DEF Yields
  <2> QED BY <1>1, <1>2, <2>1, <2>2, <2>3
<1>13. CASE c.op = "copy"
  <2>1. Answer(c) = Makes(s.h, s.a)
    BY <1>13 DEF Answer, s, CopyOf
  <2>2. List!Reply(c, ks) = <<ks>>
    BY <1>13 DEF List!Reply
  <2>3. Makes(s.h, s.a).h = H /\ Makes(s.h, s.a).v = <<ks>>
    BY <1>4, MakesIs DEF Yields
  <2> QED BY <1>1, <1>2, <2>1, <2>2, <2>3
<1>14. CASE c.op = "reverse"
  <2>1. Answer(c) = Reversed(s)
    BY <1>14 DEF Answer, s
  <2>2. List!Reply(c, ks) = <<List!Reverse(ks)>>
    BY <1>14 DEF List!Reply
  <2>3. Reversed(s).h = H /\ Reversed(s).v = <<Reverse(ks)>>
    BY <1>4, <1>5, ReversedIs
  <2> QED BY <1>1, <1>2, <2>1, <2>2, <2>3, SameOperators
<1>15. CASE c.op = "contains"
  <2>1. Answer(c) = ContainsKey(s, c.key)
    BY <1>15 DEF Answer, s
  <2>2. List!Reply(c, ks) = <<c.key \in List!ToSet(ks)>>
    BY <1>15 DEF List!Reply
  <2>3. ContainsKey(s, c.key).h = H /\ ContainsKey(s, c.key).v = <<c.key \in ToSet(ks)>>
    BY <1>4, ContainsIs
  <2>4. List!Reply(c, ks) = <<c.key \in ToSet(ks)>>
    BY <2>2, SameOperators
  <2>5. Answer(c).h = H /\ Answer(c).v = List!Reply(c, ks)
    BY <2>1, <2>3, <2>4
  <2> QED BY <1>1, <1>2, <2>5
<1>16. CASE c.op = "concat" /\ c.other \in Lists
  <2>1. Answer(c) = Concat(s, n)
    BY <1>16 DEF Answer, s, n
  <2>2. List!Reply(c, ks) = <<ks \o c.other>>
    BY <1>16 DEF List!Reply
  <2>3. PICK o \in Seq(Keys) : o = c.other /\ Yields(s.h, n, o) /\ Room(n.h, Len(ks) + Len(o))
    BY <1>6, <1>16
  <2>4. Concat(s, n).h = H /\ Concat(s, n).v = <<ks \o o>>
    <3>1. Yields(H, s, ks) /\ Yields(s.h, n, o) /\ Room(n.h, Len(ks) + Len(o))
      BY <1>4, <2>3
    <3> QED BY <3>1, ConcatAnswers
  <2> QED BY <1>1, <1>2, <2>1, <2>2, <2>3, <2>4
<1>17. CASE c.op = "eq" /\ c.other \in Lists
  <2>1. Answer(c) = Both(s, n, Equal(s, n))
    BY <1>17 DEF Answer, s, n
  <2>2. List!Reply(c, ks) = <<ks = c.other>>
    BY <1>17 DEF List!Reply
  <2>3. PICK o \in Seq(Keys) : o = c.other /\ Yields(s.h, n, o)
    BY <1>6, <1>17
  <2>4. ASSUME NEW v PROVE Both(s, n, v).h = H /\ Both(s, n, v).v = <<v>> /\ (Equal(s, n) <=> ks = o)
    <3>1. Yields(H, s, ks) /\ Yields(s.h, n, o)
      BY <1>4, <2>3
    <3> QED BY <3>1, EqualIs
  <2>5. PICK b \in BOOLEAN : b = (ks = o)
    OBVIOUS
  <2>6. b = Equal(s, n)
    BY <2>4, <2>5 DEF Equal
  <2>7. Answer(c) = Both(s, n, b) /\ List!Reply(c, ks) = <<b>>
    BY <2>1, <2>2, <2>3, <2>5, <2>6
  <2> QED BY <1>1, <1>2, <2>4, <2>7
<1>18. CASE c.op = "ne" /\ c.other \in Lists
  <2>1. Answer(c) = Both(s, n, ~Equal(s, n))
    BY <1>18 DEF Answer, s, n
  <2>2. List!Reply(c, ks) = <<ks # c.other>>
    BY <1>18 DEF List!Reply
  <2>3. PICK o \in Seq(Keys) : o = c.other /\ Yields(s.h, n, o)
    BY <1>6, <1>18
  <2>4. ASSUME NEW v PROVE Both(s, n, v).h = H /\ Both(s, n, v).v = <<v>> /\ (Equal(s, n) <=> ks = o)
    <3>1. Yields(H, s, ks) /\ Yields(s.h, n, o)
      BY <1>4, <2>3
    <3> QED BY <3>1, EqualIs
  <2>5. PICK b \in BOOLEAN : b = (ks # o)
    OBVIOUS
  <2>6. b = (~Equal(s, n))
    BY <2>4, <2>5
  <2>7. Answer(c) = Both(s, n, b) /\ List!Reply(c, ks) = <<b>>
    BY <2>1, <2>2, <2>3, <2>5, <2>6
  <2> QED BY <1>1, <1>2, <2>4, <2>7
<1>19. CASE c.op = "slice" /\ c.from \in Indexes /\ c.to \in Indexes
  <2>1. Answer(c) = Slice(s, c)
    BY <1>19 DEF Answer, s
  <2>2. List!Reply(c, ks) =
          <<SubSeq(ks, List!Clamp(ks, c.from) + 1, IF c.toEnd THEN Len(ks) ELSE List!Clamp(ks, c.to))>>
    BY <1>19 DEF List!Reply
  <2>3. c.from \in Int /\ c.to \in Int
    BY <1>19, ListsAssumption
  <2> QED BY <1>1, <1>2, <1>4, <1>5, <2>1, <2>2, <2>3, SliceIs
<1>20. \/ c.op \in {"first", "last", "len", "empty", "str", "copy", "reverse", "contains"}
       \/ c.op = "at" /\ c.i \in Indexes
       \/ c.op \in {"concat", "eq", "ne"} /\ c.other \in Lists
       \/ c.op = "slice" /\ c.from \in Indexes /\ c.to \in Indexes
  BY DEF Questions
<1> QED BY <1>7, <1>8, <1>9, <1>10, <1>11, <1>12, <1>13, <1>14, <1>15, <1>16, <1>17, <1>18, <1>19, <1>20

-----------------------------------------------------------------------------
(* The invariant holds. *)
LEMMA InitInv ==
  ASSUME Init
  PROVE  IInv
<1>1. run = Free /\ self = NullArray /\ heap = Nothing(FALSE)
  BY DEF Init, Nothing
<1>2. PICK e \in HeapT : e = Nothing(FALSE) /\ e.lost = FALSE
  BY NothingIsHeap
<1>3. Fresh(e, NullArray) /\ With(e, NullArray) = e
  BY <1>2, WithNull
<1>4. Holds(heap, e, self, Source, Built)
  <2>1. Holds(With(e, NullArray), e, NullArray, NullArray, NullArray)
    BY <1>3, HoldsOne
  <2> QED BY <1>1, <1>2, <1>3, <2>1, LocalsWhenFree
<1>5. heap.lost = FALSE /\ Nothing(heap.lost) = e
  BY <1>1, <1>2
<1>6. self.l <= MaxLen /\ Source.l <= MaxLen /\ Built.l <= MaxLen
  <2>1. NullArray.l <= MaxLen
    BY ListsAssumption DEF NullArray
  <2> QED BY <1>1, <2>1, LocalsWhenFree
<1>7. heap.lost \in BOOLEAN
  BY <1>5
<1> QED BY <1>1, <1>4, <1>5, <1>6, <1>7 DEF IInv, Account, Running

LEMMA StandStill ==
  ASSUME IInv, heap' = heap, self' = self, run' = run
  PROVE  IInv'
BY DEF IInv, Account, Running, Source, Built, InFilter, InForEach, Stopped,
       SortRuns, FilterRuns, ForEachRuns

LEMMA AskStep ==
  ASSUME IInv, NEW c \in Questions, Ask(c)
  PROVE  IInv' /\ self' = self /\ run' = run /\ heap' = heap
<1>1. heap' = heap /\ self' = self /\ run' = run
  BY Answered DEF Ask
<1> QED BY <1>1, StandStill

LEMMA NextStep ==
  ASSUME IInv, [Next]_vars
  PROVE  IInv'
<1>1. ASSUME NEW c \in Questions, Ask(c) PROVE IInv'
  BY <1>1, AskStep
<1>2. ASSUME NEW ks \in Lists, Assign(ks) \/ Push(ks) \/ Merge(ks) \/ MergeExhausts(ks) PROVE IInv'
  BY <1>2, AssignStep, PushStep, MergeStep, MergeExhaustsStep
<1>3. ASSUME NEW n \in Indexes, RemoveIndex(n) PROVE IInv'
  BY <1>3, RemoveIndexStep
<1>4. CASE Clear \/ Pop
  BY <1>4, ClearStep, PopStep
<1>5. ASSUME NEW cmp \in Comparators, Sort(cmp) PROVE IInv'
  BY <1>5, SortStep
<1>6. ASSUME NEW p \in Predicates, Filter(p) PROVE IInv'
  BY <1>6, FilterStep
<1>7. CASE ForEach
  BY <1>7, ForEachStep
<1>8. CASE Callback
  BY <1>8, SortReturnsStep, SortEndsStep, FilterReturnsStep, FilterEndsStep,
     ForEachReturnsStep, ForEachEndsStep DEF Callback
<1>9. CASE MeddlePop \/ MeddleClear
  BY <1>9, MeddlePopStep, MeddleClearStep
<1>10. ASSUME NEW k \in Keys, MeddlePush(k) PROVE IInv'
  BY <1>10, MeddlePushStep
<1>11. CASE CallbackThrows
  BY <1>11, CallbackThrowsStep
<1>12. CASE UNCHANGED vars
  BY <1>12, StandStill DEF vars
<1> QED BY <1>1, <1>2, <1>3, <1>4, <1>5, <1>6, <1>7, <1>8, <1>9, <1>10, <1>11, <1>12 DEF Next

(* The memory that the arrays and the calls in progress own is accounted    *)
(* for array by array, and the loops of _sort, _filter and _forEach stay    *)
(* within what they go over.                                                *)
THEOREM InvariantHolds == Spec => []IInv
<1>1. Init => IInv
  BY InitInv
<1>2. IInv /\ [Next]_vars => IInv'
  BY NextStep
<1> QED BY <1>1, <1>2, PTL DEF Spec

LEMMA TypesFollow ==
  ASSUME IInv
  PROVE  TypeOK
<1>1. /\ self.l \in 0..MaxLen /\ Good(self) /\ Good(Source) /\ Good(Built)
      /\ heap \in HeapT /\ heap.blocks = BlockOf(self) + BlockOf(Source) + BlockOf(Built)
  BY AccountOf DEF IInv
<1>2. self.null \in BOOLEAN /\ Len(self.cells) = self.l
  BY <1>1 DEF Good
<1>3. DOMAIN self.cells = 1..self.l /\ \A i \in 1..self.l : self.cells[i] \in CellT
  BY <1>1, GoodCells
<1>4. BlockOf(self) \in 0..1 /\ BlockOf(Source) \in 0..1 /\ BlockOf(Built) \in 0..1
  BY <1>1, GoodCells
<1>5. heap.blocks \in 0..3
  BY <1>1, <1>4
<1>6. heap.own \subseteq Memory /\ heap.bad \in BOOLEAN /\ heap.lost \in BOOLEAN
  BY <1>1 DEF HeapT
<1>7. run.op \in {"free", "sort", "filter", "forEach", "exited", "undefined"}
  BY DEF IInv, Running, Free, Stopped, Ended, SortRuns, SortT, FilterRuns, FilterT, ForEachRuns, VisitT
<1>8. \A i \in DOMAIN self.cells : self.cells[i] \in [key : Keys, own : Memory]
  BY <1>3 DEF CellT
<1> QED BY <1>1, <1>2, <1>5, <1>6, <1>7, <1>8 DEF TypeOK

(* Between any two steps every piece of memory has one owner, every block   *)
(* is the block of one array and nothing was freed twice: the copies that   *)
(* the methods of codegen/type-array.cpp take and free, the moves of _push, *)
(* the memmove of _remove, the swaps of _sort and the unwinding of a        *)
(* callback that throws keep the account, for any literals and indexes, any *)
(* callbacks, and arrays of any length.                                     *)
THEOREM OwnedOnceHolds == Spec => []OwnedOnce
<1>1. IInv => OwnedOnce
  <2> SUFFICES ASSUME IInv PROVE OwnedOnce
    OBVIOUS
  <2>1. /\ ~heap.bad
        /\ heap.own = OwnOf(self) \cup OwnOf(Source) \cup OwnOf(Built)
        /\ heap.blocks = BlockOf(self) + BlockOf(Source) + BlockOf(Built)
        /\ self.l + Source.l + Built.l = Cardinality(heap.own)
    BY AccountOf DEF IInv
  <2> QED BY <2>1, TypesFollow DEF OwnedOnce
<1> QED BY <1>1, InvariantHolds, PTL

(* What the methods answer is what the list says, for every question, every *)
(* index and every array; what _filter has kept when it returns is what its *)
(* callback accepted, in order and as often; and _forEach has shown its     *)
(* callback every element.                                                  *)
THEOREM AnswersAgreeHold == Spec => []AnswersAgree
<1>1. IInv => AnswersAgree
  <2> SUFFICES ASSUME IInv PROVE AnswersAgree
    OBVIOUS
  <2>1. ASSUME run = Free, NEW c \in Questions PROVE Answer(c).v = List!Reply(c, KeysOf(self))
    BY <2>1, Answered
  <2>2. ASSUME InFilter, ~Filtering
        PROVE  Keeps(KeysOf(run.src), run.src.l, KeysOf(run.out), run.keep)
    <3>1. FilterRuns /\ run.op = "filter"
      BY <2>2, FilteringIs DEF IInv, InFilter
    <3>2. Source = run.src /\ run.src.l \in 0..MaxLen
      BY <3>1, LocalsWhenFiltering, AccountOf DEF IInv
    <3>3. run.i \in 1..run.src.l + 1 /\ ~ run.i <= run.src.l
      BY <2>2, <3>1 DEF FilterRuns, Filtering
    <3>4. run.i - 1 = run.src.l
      BY <3>2, <3>3, ListsAssumption
    <3> QED BY <3>1, <3>4 DEF FilterRuns
  <2>3. ASSUME InForEach, ~Visiting PROVE run.seen = KeysOf(run.src)
    <3>1. ForEachRuns /\ run.op = "forEach"
      BY <2>3, VisitingIs DEF IInv, InForEach
    <3>2. Source = run.src /\ Good(run.src) /\ run.src.l \in 0..MaxLen
      BY <3>1, LocalsWhenVisiting, AccountOf DEF IInv
    <3>3. KeysOf(run.src) \in Seq(Keys) /\ Len(KeysOf(run.src)) = run.src.l
      BY <3>2, KeysAre
    <3>4. /\ run.seen \in Seq(Keys) /\ Len(run.seen) <= run.src.l
          /\ \A j \in 1..Len(run.seen) : run.seen[j] = KeysOf(run.src)[j]
      BY <3>1 DEF ForEachRuns, VisitT
    <3>5. Len(run.seen) = run.src.l
      <4>1. Len(run.seen) \in Nat /\ ~ Len(run.seen) < run.src.l
        BY <2>3, <3>4, LenProperties DEF Visiting
      <4> QED BY <3>2, <3>4, <4>1, ListsAssumption
    <3> QED BY <3>3, <3>4, <3>5, SeqEqual
  <2> QED BY <2>1, <2>2, <2>3 DEF AnswersAgree
<1> QED BY <1>1, InvariantHolds, PTL

-----------------------------------------------------------------------------
(* Every step is a step of the list, or none. *)
LEMMA BusyIs ==
  /\ run = Free => Busy = Free
  /\ Stopped => Busy = [op |-> "stopped"]
  /\ run.op = "sort" => Busy = [op |-> "sort", cmp |-> run.cmp, short |-> run.short]
  /\ run.op = "filter" => Busy = [op |-> "filter", keep |-> run.keep, over |-> KeysOf(run.src)]
  /\ run.op = "forEach" => Busy = [op |-> "forEach", over |-> KeysOf(run.src)]
<1>1. ASSUME run = Free PROVE Busy = Free
  BY <1>1, LocalsWhenFree DEF Busy
<1>2. ASSUME Stopped PROVE Busy = [op |-> "stopped"]
  BY <1>2, LocalsWhenStopped DEF Busy
<1>3. ASSUME run.op = "sort" PROVE Busy = [op |-> "sort", cmp |-> run.cmp, short |-> run.short]
  BY <1>3, LocalsWhenSorting DEF Busy
<1>4. ASSUME run.op = "filter" PROVE Busy = [op |-> "filter", keep |-> run.keep, over |-> KeysOf(run.src)]
  BY <1>4, LocalsWhenFiltering DEF Busy
<1>5. ASSUME run.op = "forEach" PROVE Busy = [op |-> "forEach", over |-> KeysOf(run.src)]
  BY <1>5, LocalsWhenVisiting DEF Busy
<1> QED BY <1>1, <1>2, <1>3, <1>4, <1>5

LEMMA BusyNext ==
  /\ run' = Free => Busy' = Free
  /\ (run' = Ended("exited") \/ run' = Ended("undefined")) => Busy' = [op |-> "stopped"]
  /\ run'.op = "sort" => Busy' = [op |-> "sort", cmp |-> run'.cmp, short |-> run'.short]
  /\ run'.op = "filter" => Busy' = [op |-> "filter", keep |-> run'.keep, over |-> KeysOf(run'.src)]
  /\ run'.op = "forEach" => Busy' = [op |-> "forEach", over |-> KeysOf(run'.src)]
<1>1. (/\ run = Free => Busy = Free
       /\ Stopped => Busy = [op |-> "stopped"]
       /\ run.op = "sort" => Busy = [op |-> "sort", cmp |-> run.cmp, short |-> run.short]
       /\ run.op = "filter" => Busy = [op |-> "filter", keep |-> run.keep, over |-> KeysOf(run.src)]
       /\ run.op = "forEach" => Busy = [op |-> "forEach", over |-> KeysOf(run.src)])'
  BY BusyIs, PTL
<1>2. (run' = Ended("exited") \/ run' = Ended("undefined")) => Stopped'
  BY DEF Stopped
<1> QED BY <1>1, <1>2

(* What the list sees of a call in progress. *)
LEMMA CallSeen ==
  ASSUME IInv, InCallback \/ InSort \/ InFilter \/ InForEach
  PROVE  /\ run.op = "sort" \/ run.op = "filter" \/ run.op = "forEach"
         /\ Busy.op = run.op /\ List!Calling
         /\ run.op = "sort" => Busy = [op |-> "sort", cmp |-> run.cmp, short |-> run.short]
         /\ run.op = "filter" => Busy = [op |-> "filter", keep |-> run.keep, over |-> KeysOf(run.src)]
         /\ run.op = "forEach" => Busy = [op |-> "forEach", over |-> KeysOf(run.src)]
<1>1. run.op = "sort" \/ run.op = "filter" \/ run.op = "forEach"
  BY DEF InCallback, Sorting, Filtering, Visiting, InSort, InFilter, InForEach
<1>2. Busy.op = run.op
  <2>1. CASE run.op = "sort"
    BY <2>1, BusyIs
  <2>2. CASE run.op = "filter"
    BY <2>2, BusyIs
  <2>3. CASE run.op = "forEach"
    BY <2>3, BusyIs
  <2> QED BY <1>1, <2>1, <2>2, <2>3
<1>3. List!Calling
  BY <1>1, <1>2 DEF List!Calling
<1> QED BY <1>1, <1>2, <1>3, BusyIs

LEMMA MapsInit ==
  ASSUME Init
  PROVE  List!Init
<1>1. run = Free /\ self = NullArray
  BY DEF Init
<1>2. KeysOf(NullArray) = <<>>
  <2>1. Nothing(FALSE) \in HeapT
    BY NothingIsHeap
  <2> QED BY <2>1, NullYields DEF Yields
<1>3. Busy = List!Free
  BY <1>1, BusyIs DEF Free, List!Free
<1> QED BY <1>1, <1>2, <1>3 DEF List!Init

LEMMA MapsCalls ==
  ASSUME IInv,
         \/ \E c \in Questions : Ask(c)
         \/ \E ks \in Lists : Assign(ks) \/ Push(ks) \/ Merge(ks) \/ MergeExhausts(ks)
         \/ \E n \in Indexes : RemoveIndex(n)
         \/ Clear \/ Pop
  PROVE  [List!Next]_(List!avars)
<1> DEFINE ks1 == KeysOf(self)
<1>1. ks1 \in Seq(Keys) /\ Len(ks1) = self.l
  BY SelfKeys DEF IInv
<1>2. ASSUME run = Free PROVE Busy = List!Free
  BY <1>2, BusyIs DEF Free, List!Free
<1>3. ASSUME run = Free, run' = Free PROVE Busy = List!Free /\ Busy' = Busy
  BY <1>3, BusyIs, BusyNext DEF Free, List!Free
<1>4. ASSUME NEW c \in Questions, Ask(c) PROVE UNCHANGED List!avars
  <2>1. self' = self /\ run' = run
    BY <1>4, AskStep
  <2> QED BY <2>1 DEF List!avars, Busy, InSort, InFilter, InForEach
<1>5. ASSUME NEW ks \in Lists, Assign(ks) PROVE List!Next
  <2>1. List!Assign(ks)
    BY <1>3, <1>5, AssignStep DEF Assign, Change, List!Assign
  <2> QED BY <2>1 DEF List!Next
<1>6. ASSUME NEW ks \in Lists, Push(ks) \/ Merge(ks) PROVE List!Next
  <2>1. KeysOf(self') = ks1 \o ks /\ run = Free /\ run' = Free
    BY <1>6, PushStep, MergeStep DEF Push, Merge, Change
  <2>2. List!Extend(ks)
    BY <1>3, <2>1 DEF List!Extend
  <2> QED BY <2>2 DEF List!Next
<1>7. ASSUME self.l = 0, self' = self, run = Free, run' = Ended("exited") \/ run' = Ended("undefined")
      PROVE  List!Next
  <2>1. ks1 = <<>>
    BY <1>1, <1>7, EmptySeq
  <2>2. Busy = List!Free /\ Busy' = [op |-> "stopped"]
    BY <1>2, <1>7, BusyNext
  <2>3. List!Stop
    BY <1>7, <2>1, <2>2 DEF List!Stop
  <2> QED BY <2>3 DEF List!Next
<1>8. ASSUME NEW ks \in Lists, MergeExhausts(ks) PROVE List!Next
  BY <1>7, <1>8, MergeExhaustsStep
<1>9. ASSUME NEW n \in Indexes, RemoveIndex(n) PROVE List!Next
  <2>1. /\ run = Free /\ run' = Free
        /\ OutOfBounds(self.l, n) => self' = self
        /\ ~OutOfBounds(self.l, n) => KeysOf(self') = RemoveAt(ks1, Cell(self.l, n))
    BY <1>9, RemoveIndexStep
  <2>2. List!Place(ks1, n) = Cell(self.l, n) /\ (List!Inside(ks1, n) <=> ~OutOfBounds(self.l, n))
    BY <1>1, PlaceIs, ListsAssumption
  <2>3. KeysOf(self') = IF List!Inside(ks1, n) THEN List!RemoveAt(ks1, List!Place(ks1, n)) ELSE ks1
    BY <2>1, <2>2, SameOperators
  <2>4. List!Delete(n)
    BY <1>3, <2>1, <2>3 DEF List!Delete
  <2> QED BY <2>4 DEF List!Next
<1>10. CASE Clear
  <2>1. List!Clear
    BY <1>3, <1>10, ClearStep DEF Clear, Change, List!Clear, List!Assign
  <2> QED BY <2>1 DEF List!Next
<1>11. CASE Pop
  <2>1. CASE ks1 # <<>> /\ KeysOf(self') = Front(ks1) /\ run = Free /\ run' = Free
    <3>1. List!Pop
      BY <1>3, <2>1, SameOperators DEF List!Pop
    <3> QED BY <3>1 DEF List!Next
  <2>2. CASE self.l = 0 /\ self' = self /\ run = Free /\ run' = Ended("undefined")
    BY <1>7, <2>2
  <2> QED BY <1>11, <2>1, <2>2, PopStep
<1> QED BY <1>4, <1>5, <1>6, <1>8, <1>9, <1>10, <1>11

LEMMA MapsBegin ==
  ASSUME IInv, (\E cmp \in Comparators : Sort(cmp)) \/ (\E p \in Predicates : Filter(p)) \/ ForEach
  PROVE  List!Begin
<1>1. ASSUME NEW cmp \in Comparators, Sort(cmp) PROVE List!Begin
  <2>1. self' = self /\ Busy = List!Free /\ Busy' = [op |-> "sort", cmp |-> cmp, short |-> FALSE]
    BY <1>1, SortStep, BusyIs, BusyNext DEF Free, List!Free
  <2>2. List!BeginSort(cmp)
    BY <2>1 DEF List!BeginSort
  <2> QED BY <2>1, <2>2 DEF List!Begin
<1>2. ASSUME NEW p \in Predicates, Filter(p) PROVE List!Begin
  <2>1. self' = self /\ Busy = List!Free /\ Busy' = [op |-> "filter", keep |-> p, over |-> KeysOf(self)]
    BY <1>2, FilterStep, BusyIs, BusyNext DEF Free, List!Free
  <2>2. List!BeginFilter(p)
    BY <2>1 DEF List!BeginFilter
  <2> QED BY <2>1, <2>2 DEF List!Begin
<1>3. CASE ForEach
  <2>1. self' = self /\ Busy = List!Free /\ Busy' = [op |-> "forEach", over |-> KeysOf(self)]
    BY <1>3, ForEachStep, BusyIs, BusyNext DEF Free, List!Free
  <2>2. List!BeginForEach
    BY <2>1 DEF List!BeginForEach
  <2> QED BY <2>1, <2>2 DEF List!Begin
<1> QED BY <1>1, <1>2, <1>3

LEMMA MapsSort ==
  ASSUME IInv, SortReturns \/ SortEnds
  PROVE  [List!Next]_(List!avars)
<1>1. CASE SortReturns
  <2>1. /\ InSort
        /\ \/ run' = Ended("undefined") /\ self' = self /\ run.short
           \/ /\ run'.op = "sort" /\ run'.cmp = run.cmp /\ run'.short = run.short
              /\ self' = self \/ \E i \in 1..self.l - 1 : self' = Swapped(self, i)
    BY <1>1, SortReturnsStep
  <2>2. run.op = "sort" /\ Busy = [op |-> "sort", cmp |-> run.cmp, short |-> run.short] /\ Busy.op = "sort"
    BY <2>1, CallSeen DEF InSort
  <2>3. CASE run' = Ended("undefined") /\ self' = self /\ run.short
    <3>1. Busy.short
      BY <2>2, <2>3
    <3>2. Busy' = [op |-> "stopped"]
      BY <2>3, BusyNext
    <3>3. List!Stop
      BY <2>2, <2>3, <3>1, <3>2 DEF List!Stop
    <3> QED BY <3>3 DEF List!Next
  <2>4. CASE /\ run'.op = "sort" /\ run'.cmp = run.cmp /\ run'.short = run.short
             /\ self' = self \/ \E i \in 1..self.l - 1 : self' = Swapped(self, i)
    <3>1. Busy' = Busy
      BY <2>2, <2>4, BusyNext
    <3>2. CASE self' = self
      BY <3>1, <3>2 DEF List!avars
    <3>3. ASSUME NEW i \in 1..self.l - 1, self' = Swapped(self, i) PROVE List!SwapNeighbours
      <4>1. PICK ks \in Seq(Keys) : ks = KeysOf(self) /\ Len(ks) = self.l /\ self.l \in 0..MaxLen
        BY SelfKeys DEF IInv
      <4>2. KeysOf(Swapped(self, i)) = [ks EXCEPT ![i + 1] = ks[i], ![i] = ks[i + 1]]
        BY <4>1, AccountOf, SwappedIs DEF IInv
      <4>3. i + 1 \in 2..Len(ks) /\ (i + 1) - 1 = i
        BY <4>1, ListsAssumption
      <4>4. PICK n \in 2..Len(ks) : n = i + 1 /\ n - 1 = i
        BY <4>3
      <4>5. KeysOf(self') = [ks EXCEPT ![n] = ks[n - 1], ![n - 1] = ks[n]]
        BY <3>3, <4>2, <4>4
      <4> QED BY <2>2, <3>1, <4>1, <4>5 DEF List!SwapNeighbours
    <3> QED BY <2>4, <3>2, <3>3 DEF List!Next
  <2> QED BY <2>1, <2>3, <2>4
<1>2. CASE SortEnds
  <2>1. self' = self /\ run' = Free /\ InSort
    BY <1>2, SortEndsStep DEF SortEnds
  <2>2. List!Calling /\ Busy' = List!Free
    BY <2>1, CallSeen, BusyNext DEF Free, List!Free
  <2>3. List!Return
    BY <2>1, <2>2 DEF List!Return
  <2> QED BY <2>3 DEF List!Next
<1> QED BY <1>1, <1>2

LEMMA MapsLoops ==
  ASSUME IInv, FilterReturns \/ FilterEnds \/ ForEachReturns \/ ForEachEnds \/ CallbackThrows
  PROVE  [List!Next]_(List!avars)
<1>1. CASE FilterReturns
  <2>1. self' = self /\ InFilter /\ run'.op = "filter" /\ run'.keep = run.keep /\ run'.src = run.src
    BY <1>1, FilterReturnsStep
  <2>2. Busy' = Busy
    BY <2>1, BusyIs, BusyNext DEF InFilter
  <2> QED BY <2>1, <2>2 DEF List!avars
<1>2. CASE ForEachReturns
  <2>1. self' = self /\ InForEach /\ run'.op = "forEach" /\ run'.src = run.src
    BY <1>2, ForEachReturnsStep
  <2>2. Busy' = Busy
    BY <2>1, BusyIs, BusyNext DEF InForEach
  <2> QED BY <2>1, <2>2 DEF List!avars
<1>3. CASE FilterEnds \/ ForEachEnds \/ CallbackThrows
  <2>1. self' = self /\ run' = Free /\ (InFilter \/ InForEach \/ InCallback)
    BY <1>3, FilterEndsStep, ForEachEndsStep, CallbackThrowsStep
  <2>2. List!Calling /\ Busy' = List!Free
    BY <2>1, CallSeen, BusyNext DEF Free, List!Free
  <2>3. List!Return
    BY <2>1, <2>2 DEF List!Return
  <2> QED BY <2>3 DEF List!Next
<1> QED BY <1>1, <1>2, <1>3

LEMMA MapsMeddling ==
  ASSUME IInv, MeddlePop \/ MeddleClear \/ \E k \in Keys : MeddlePush(k)
  PROVE  List!InCallback
<1>1. KeysOf(self) \in Seq(Keys) /\ Len(KeysOf(self)) = self.l /\ self.l \in 0..MaxLen
  BY SelfKeys DEF IInv
<1>2. ASSUME NEW short, run.op = "sort", run'.op = "sort", run'.cmp = run.cmp, run'.short = short,
             InCallback
      PROVE  Busy' = [Busy EXCEPT !.short = short]
  <2>1. PICK x, y : x = run.cmp /\ y = run.short
    OBVIOUS
  <2>2. Busy = [op |-> "sort", cmp |-> x, short |-> y]
    BY <1>2, <2>1, BusyIs
  <2>3. Busy' = [op |-> "sort", cmp |-> x, short |-> short]
    BY <1>2, <2>1, BusyNext
  <2> QED BY <2>2, <2>3
<1>3. ASSUME InCallback, run'.op = run.op,
             InFilter => run'.keep = run.keep /\ run'.src = run.src,
             InForEach => run'.src = run.src,
             run.op # "sort"
      PROVE  Busy' = Busy /\ Busy.op # "sort"
  <2>1. run.op = "filter" \/ run.op = "forEach"
    BY <1>3, CallSeen
  <2> QED BY <1>3, <2>1, CallSeen, BusyNext DEF InFilter, InForEach
<1>4. ASSUME InCallback, run'.op = run.op,
             InSort => run'.cmp = run.cmp /\ run'.short = TRUE,
             InFilter => run'.keep = run.keep /\ run'.src = run.src,
             InForEach => run'.src = run.src,
             KeysOf(self') \in {<<>>, IF KeysOf(self) = <<>> THEN <<>> ELSE Front(KeysOf(self))}
      PROVE  List!Shorten /\ List!Calling
  <2>1. Busy.op = run.op /\ List!Calling
    BY <1>4, CallSeen
  <2>2. Busy' = IF Busy.op = "sort" THEN [Busy EXCEPT !.short = TRUE] ELSE Busy
    <3>1. CASE run.op = "sort"
      <4>1. Busy' = [Busy EXCEPT !.short = TRUE]
        BY <1>2, <1>4, <3>1 DEF InSort
      <4> QED BY <2>1, <3>1, <4>1
    <3>2. CASE run.op # "sort"
      BY <1>3, <1>4, <3>2
    <3> QED BY <3>1, <3>2
  <2>3. KeysOf(self') \in {<<>>, IF KeysOf(self) = <<>> THEN <<>> ELSE List!Front(KeysOf(self))}
    BY <1>4, SameOperators
  <2> QED BY <2>1, <2>2, <2>3 DEF List!Shorten
<1>5. CASE MeddleClear
  BY <1>4, <1>5, MeddleClearStep DEF List!InCallback
<1>6. CASE MeddlePop
  <2>1. self.l > 0 /\ KeysOf(self') = Front(KeysOf(self))
    BY <1>6, MeddlePopStep
  <2>2. KeysOf(self) # <<>>
    BY <1>1, <2>1, EmptySeq
  <2> QED BY <1>4, <1>6, <2>1, <2>2, MeddlePopStep DEF List!InCallback
<1>7. ASSUME NEW k \in Keys, MeddlePush(k) PROVE List!InCallback
  <2>1. /\ KeysOf(self') = Append(KeysOf(self), k) /\ InCallback /\ run'.op = run.op
        /\ InSort    => run'.cmp = run.cmp /\ run'.short = run.short
        /\ InFilter  => run'.keep = run.keep /\ run'.src = run.src
        /\ InForEach => run'.src = run.src
    BY <1>7, MeddlePushStep
  <2>2. List!Calling
    BY <2>1, CallSeen
  <2>3. Busy' = Busy
    <3>1. CASE run.op = "sort"
      BY <2>1, <3>1, CallSeen, BusyNext DEF InSort
    <3>2. CASE run.op # "sort"
      BY <1>3, <2>1, <3>2
    <3> QED BY <3>1, <3>2
  <2>4. List!Lengthen
    BY <2>1, <2>3 DEF List!Lengthen
  <2> QED BY <2>2, <2>4 DEF List!InCallback
<1> QED BY <1>5, <1>6, <1>7

LEMMA MapsNext ==
  ASSUME IInv, [Next]_vars
  PROVE  [List!Next]_(List!avars)
<1>1. CASE \/ \E c \in Questions : Ask(c)
           \/ \E ks \in Lists : Assign(ks) \/ Push(ks) \/ Merge(ks) \/ MergeExhausts(ks)
           \/ \E n \in Indexes : RemoveIndex(n)
           \/ Clear \/ Pop
  BY <1>1, MapsCalls
<1>2. CASE (\E cmp \in Comparators : Sort(cmp)) \/ (\E p \in Predicates : Filter(p)) \/ ForEach
  BY <1>2, MapsBegin DEF List!Next
<1>3. CASE Callback \/ CallbackThrows
  BY <1>3, MapsSort, MapsLoops DEF Callback
<1>4. CASE MeddlePop \/ MeddleClear \/ \E k \in Keys : MeddlePush(k)
  BY <1>4, MapsMeddling DEF List!Next
<1>5. CASE UNCHANGED vars
  BY <1>5 DEF vars, List!avars, Busy, InSort, InFilter, InForEach
<1> QED BY <1>1, <1>2, <1>3, <1>4, <1>5 DEF Next

(* The generated array implements the list: every method does to its       *)
(* elements what the language says, whatever a callback does to the        *)
(* variable meanwhile, and the program is ended by its arrays only where   *)
(* nothing is promised any longer.                                         *)
THEOREM ImplementsArrayListHolds == Spec => ImplementsArrayList
<1>1. Init => List!Init
  BY MapsInit
<1>2. IInv /\ [Next]_vars => [List!Next]_(List!avars)
  BY MapsNext
<1>3. Spec => List!Spec
  BY <1>1, <1>2, InvariantHolds, PTL DEF Spec, List!Spec
<1> QED BY <1>3 DEF ImplementsArrayList

-----------------------------------------------------------------------------
(* _sort sorts. *)
LEMMA ComparesInts ==
  ASSUME NEW cmp \in Comparators, NEW x \in Keys, NEW y \in Keys
  PROVE  cmp[<<x, y>>] \in Int
BY ComparatorsAssumption

LEMMA SwapKeepsSet ==
  ASSUME NEW a, Good(a), NEW i \in 1..a.l - 1
  PROVE  ToSet(Swapped(a, i).cells) = ToSet(a.cells)
<1> DEFINE b == Swapped(a, i)
<1>1. Good(b) /\ b.l = a.l /\ \A j \in 1..a.l : b.cells[j] = a.cells[Other(i, j)]
  BY SwappedIs
<1> HIDE DEF b
<1>2. a.l \in Nat /\ DOMAIN a.cells = 1..a.l /\ DOMAIN b.cells = 1..a.l
  BY <1>1, GoodCells
<1>3. \A j \in 1..a.l : Other(i, j) \in 1..a.l /\ Other(i, Other(i, j)) = j
  BY <1>2 DEF Other
<1>4. \A j \in 1..a.l : b.cells[Other(i, j)] = a.cells[j]
  BY <1>1, <1>3
<1>5. ToSet(b.cells) = {b.cells[j] : j \in 1..a.l} /\ ToSet(a.cells) = {a.cells[j] : j \in 1..a.l}
  BY <1>2 DEF ToSet
<1>6. ToSet(b.cells) = ToSet(a.cells)
  BY <1>1, <1>3, <1>4, <1>5
<1> QED BY <1>6 DEF b

LEMMA SwapInverts ==
  ASSUME NEW a, Good(a), NEW i \in 1..a.l - 1, NEW t \in Seq(CellT), NEW cmp,
         InvertedRightly(a.cells, t, cmp), cmp[<<a.cells[i].key, a.cells[i + 1].key>>] > 0
  PROVE  InvertedRightly(Swapped(a, i).cells, t, cmp)
<1> DEFINE b == Swapped(a, i)
<1>1. Good(b) /\ b.l = a.l /\ \A j \in 1..a.l : b.cells[j] = a.cells[Other(i, j)]
  BY SwappedIs
<1> HIDE DEF b
<1>2. a.l \in Nat /\ DOMAIN a.cells = 1..a.l /\ DOMAIN b.cells = 1..a.l
  BY <1>1, GoodCells
<1>3. ASSUME NEW m \in 1..a.l, NEW n \in 1..a.l, NEW p \in DOMAIN t, NEW q \in DOMAIN t,
             m < n, p < q, b.cells[m] = t[q], b.cells[n] = t[p]
      PROVE  cmp[<<t[p].key, t[q].key>>] > 0
  <2>1. /\ a.cells[Other(i, m)] = t[q] /\ a.cells[Other(i, n)] = t[p]
        /\ Other(i, m) \in 1..a.l /\ Other(i, n) \in 1..a.l
    <3>1. b.cells[m] = a.cells[Other(i, m)] /\ b.cells[n] = a.cells[Other(i, n)]
      BY <1>1
    <3>2. Other(i, m) \in 1..a.l /\ Other(i, n) \in 1..a.l
      BY <1>2 DEF Other
    <3> QED BY <1>3, <3>1, <3>2
  <2>2. CASE Other(i, m) < Other(i, n)
    BY <1>2, <1>3, <2>1, <2>2 DEF InvertedRightly
  <2>3. CASE ~ Other(i, m) < Other(i, n)
    <3>1. m = i /\ n = i + 1
      BY <1>2, <1>3, <2>3 DEF Other
    <3>2. t[p] = a.cells[i] /\ t[q] = a.cells[i + 1]
      BY <2>1, <3>1 DEF Other
    <3> QED BY <3>2
  <2> QED BY <2>2, <2>3
<1> QED BY <1>2, <1>3 DEF InvertedRightly, b

LEMMA LoopTracks ==
  ASSUME NEW a, Good(a), NEW i \in Nat \ {0}, i <= a.l \/ i = 1, NEW b \in BOOLEAN, NEW cmp,
         ~b => InOrder(a.cells, i, cmp)
  PROVE  OnTrack(LoopAt(a, i, b), a, cmp) /\ OnTrack(NextPass(a), a, cmp)
<1>1. a.l \in Nat
  BY GoodCells
<1>2. ASSUME NEW k, NEW x, ~x => InOrder(a.cells, k, cmp) PROVE OnTrack(Compares(a, k, x), a, cmp)
  <2>1. /\ Compares(a, k, x).i = k /\ Compares(a, k, x).b = x /\ Compares(a, k, x).calling = TRUE
        /\ Compares(a, k, x).args = <<a.cells[k].key, a.cells[k + 1].key>>
    BY DEF Compares
  <2> HIDE DEF Compares
  <2> QED BY <1>2, <2>1 DEF OnTrack
<1>3. ASSUME InOrder(a.cells, a.l, cmp) PROVE OnTrack(PassOver(FALSE), a, cmp)
  <2>1. PassOver(FALSE).calling = FALSE
    BY DEF PassOver
  <2> QED BY <1>3, <2>1 DEF OnTrack
<1>4. OnTrack(NextPass(a), a, cmp)
  <2>1. CASE 1 < a.l
    <3>1. InOrder(a.cells, 1, cmp)
      BY DEF InOrder
    <3>2. OnTrack(Compares(a, 1, FALSE), a, cmp)
      BY <1>2, <3>1
    <3> QED BY <2>1, <3>2 DEF NextPass
  <2>2. CASE ~ 1 < a.l
    <3>1. InOrder(a.cells, a.l, cmp)
      BY <1>1, <2>2 DEF InOrder
    <3> QED BY <1>3, <2>2, <3>1 DEF NextPass
  <2> QED BY <2>1, <2>2
<1>5. OnTrack(LoopAt(a, i, b), a, cmp)
  <2>1. CASE i < a.l
    <3>1. OnTrack(Compares(a, i, b), a, cmp)
      BY <1>2
    <3> QED BY <2>1, <3>1 DEF LoopAt
  <2>2. CASE ~ i < a.l /\ b
    BY <1>4, <2>2 DEF LoopAt
  <2>3. CASE ~ i < a.l /\ ~b
    <3>1. InOrder(a.cells, a.l, cmp)
      <4>1. CASE i = a.l
        BY <2>3, <4>1
      <4>2. CASE i # a.l
        <5>1. a.l <= 1
          BY <1>1, <2>3, <4>2
        <5> QED BY <1>1, <5>1 DEF InOrder
      <4> QED BY <4>1, <4>2
    <3> QED BY <1>3, <2>3, <3>1 DEF LoopAt
  <2> QED BY <2>1, <2>2, <2>3
<1> QED BY <1>4, <1>5

(* Neighbours in order are all in order, if the comparator is consistent. *)
LEMMA OrderedThroughout ==
  ASSUME NEW a, Good(a), NEW cmp \in Comparators, Consistent(cmp), InOrder(a.cells, a.l, cmp),
         NEW i \in 1..a.l, NEW j \in 1..a.l, i < j
  PROVE  cmp[<<a.cells[i].key, a.cells[j].key>>] <= 0
<1> DEFINE c(k) == cmp[<<a.cells[i].key, a.cells[k].key>>]
           J == {k \in i + 1..a.l : ~ c(k) <= 0}
<1>1. a.l \in Nat /\ \A k \in 1..a.l : a.cells[k].key \in Keys
  BY GoodCells DEF CellT
<1>2. CASE J = {}
  BY <1>1, <1>2
<1>3. CASE J # {}
  <2>1. J \in SUBSET Nat
    BY <1>1
  <2>2. PICK m \in J : \A k \in J : m <= k
    <3> HIDE DEF J
    <3> QED BY <1>3, <2>1, SmallestMember
  <2>3. m \in i + 1..a.l /\ ~ c(m) <= 0 /\ m - 1 \in i..a.l - 1 /\ (m - 1) + 1 = m /\ m - 1 \in 1..a.l - 1
    BY <1>1, <2>2
  <2>4. cmp[<<a.cells[m - 1].key, a.cells[m].key>>] <= 0
    <3>1. PICK k \in 1..a.l - 1 : k = m - 1 /\ k + 1 = m
      BY <2>3
    <3>2. PICK u, v : u = a.cells[k].key /\ v = a.cells[k + 1].key
      OBVIOUS
    <3>3. cmp[<<u, v>>] <= 0
      BY <3>2 DEF InOrder
    <3>4. u = a.cells[m - 1].key /\ v = a.cells[m].key
      BY <3>1, <3>2
    <3> QED BY <3>3, <3>4
  <2>5. CASE m - 1 = i
    BY <2>3, <2>4, <2>5
  <2>6. CASE m - 1 # i
    <3>1. m - 1 \in i + 1..a.l /\ ~ m <= m - 1
      <4>1. m \in i + 1..a.l /\ i \in Int /\ a.l \in Int
        BY <1>1, <2>3
      <4> HIDE DEF c, J
      <4> QED BY <2>6, <4>1
    <3>2. c(m - 1) <= 0
      <4>1. m - 1 \notin J
        BY <2>2, <3>1
      <4> QED BY <3>1, <4>1
    <3>3. PICK x \in Keys, y \in Keys, z \in Keys :
            x = a.cells[i].key /\ y = a.cells[m - 1].key /\ z = a.cells[m].key
      BY <1>1, <2>3
    <3>4. cmp[<<x, y>>] <= 0 /\ cmp[<<y, z>>] <= 0
      BY <2>4, <3>2, <3>3
    <3>5. cmp[<<x, z>>] <= 0
      BY <3>4 DEF Consistent
    <3> QED BY <2>3, <3>3, <3>5
  <2> QED BY <2>5, <2>6
<1> QED BY <1>2, <1>3

LEMMA SortedIs ==
  ASSUME NEW a, Good(a), NEW t \in Seq(CellT), NEW cmp \in Comparators, Consistent(cmp),
         ToSet(a.cells) = ToSet(t), InvertedRightly(a.cells, t, cmp), InOrder(a.cells, a.l, cmp)
  PROVE  Stable(a.cells, t, cmp)
<1>1. /\ a.l \in Nat /\ DOMAIN a.cells = 1..a.l /\ \A k \in 1..a.l : a.cells[k].key \in Keys
      /\ \A k, m \in 1..a.l : a.cells[k].own = a.cells[m].own => k = m
  BY GoodCells DEF CellT
<1>2. DOMAIN t = 1..Len(t) /\ Len(t) \in Nat
  BY LenProperties
<1>3. ASSUME NEW i \in 1..a.l, NEW j \in 1..a.l, i < j
      PROVE  \/ cmp[<<a.cells[i].key, a.cells[j].key>>] < 0
             \/ /\ cmp[<<a.cells[i].key, a.cells[j].key>>] = 0
                /\ \E p, q \in DOMAIN t : p < q /\ t[p] = a.cells[i] /\ t[q] = a.cells[j]
  <2>1. PICK x \in Keys, y \in Keys : x = a.cells[i].key /\ y = a.cells[j].key
    BY <1>1
  <2>2. cmp[<<x, y>>] <= 0 /\ cmp[<<x, y>>] \in Int /\ cmp[<<y, x>>] \in Int
    BY <1>3, <2>1, OrderedThroughout, ComparesInts
  <2>3. a.cells[i] \in ToSet(t) /\ a.cells[j] \in ToSet(t)
    BY <1>1 DEF ToSet
  <2>4. PICK p \in DOMAIN t, q \in DOMAIN t : t[p] = a.cells[i] /\ t[q] = a.cells[j]
    BY <2>3 DEF ToSet
  <2>5. p # q
    BY <1>1, <1>3, <2>4
  <2>6. CASE p < q
    BY <2>1, <2>2, <2>4, <2>6
  <2>7. CASE q < p
    <3>1. cmp[<<t[q].key, t[p].key>>] > 0
      BY <1>1, <1>3, <2>4, <2>7 DEF InvertedRightly
    <3>2. cmp[<<y, x>>] > 0
      BY <2>1, <2>4, <3>1
    <3>3. cmp[<<x, y>>] < 0
      BY <3>2 DEF Consistent
    <3> QED BY <2>1, <3>3
  <2> QED BY <1>2, <2>5, <2>6, <2>7
<1> QED BY <1>1, <1>3 DEF Stable

LEMMA SortTracked ==
  ASSUME IInv, NEW cmp \in Comparators, Sort(cmp)
  PROVE  SortOnTrack'
<1> DEFINE r == [op |-> "sort", cmp |-> cmp, left |-> MaxMeddles, short |-> FALSE,
                 before |-> Elements(self), loop |-> NextPass(self)]
<1>1. self' = self /\ run' = r
  BY DEF Sort
<1>2. Good(self) /\ Elements(self) = self.cells /\ DOMAIN self.cells = 1..self.l
  BY AccountOf, ElementsAre, GoodCells DEF IInv
<1>3. /\ r.cmp = cmp /\ r.left = MaxMeddles /\ r.short = FALSE /\ r.before = self.cells
      /\ r.loop = NextPass(self)
  BY <1>2
<1> HIDE DEF r
<1>4. InvertedRightly(self.cells, self.cells, cmp)
  <2>1. ASSUME NEW i \in 1..self.l, NEW j \in 1..self.l, NEW p \in 1..self.l, NEW q \in 1..self.l,
               i < j, p < q, self.cells[i] = self.cells[q], self.cells[j] = self.cells[p]
        PROVE  FALSE
    <3>1. i = q /\ j = p
      BY <1>2, <2>1, GoodCells
    <3> QED BY <2>1, <3>1
  <2> QED BY <1>2, <2>1 DEF InvertedRightly
<1>5. OnTrack(NextPass(self), self, cmp)
  <2>1. 1 \in Nat \ {0} /\ TRUE \in BOOLEAN
    OBVIOUS
  <2> QED BY <1>2, <2>1, LoopTracks
<1>6. run'.left <= MaxMeddles
  BY <1>1, <1>3, ListsAssumption
<1> QED BY <1>1, <1>3, <1>4, <1>5, <1>6 DEF SortOnTrack

LEMMA SortReturnTracked ==
  ASSUME SortInv, SortReturns
  PROVE  SortOnTrack'
<1> DEFINE i == run.loop.i
           swaps == GreaterFirst(run.cmp[run.loop.args])
           a == IF swaps /\ i < self.l THEN Swapped(self, i) ELSE self
<1>1. SortRuns /\ InSort /\ run.loop.calling
  BY SortingIs DEF SortReturns, Sorting, IInv, SortInv
<1>2. /\ run \in SortT /\ i \in Nat \ {0} /\ run.loop.b \in BOOLEAN
      /\ run.cmp \in Comparators /\ run.before \in Seq(CellT) /\ (~run.short => i < self.l)
  BY <1>1 DEF SortRuns, SortT, LoopT
<1>3. Good(self) /\ self.l \in Nat
  BY AccountOf DEF IInv, SortInv
<1>4. CASE swaps /\ i >= self.l
  BY <1>4 DEF SortReturns, Ended, SortOnTrack, InSort
<1>5. CASE ~(swaps /\ i >= self.l)
  <2>1. self' = a /\ run' = [run EXCEPT !.loop = LoopAt(a, i + 1, run.loop.b \/ swaps)]
    BY <1>5 DEF SortReturns
  <2>2. PICK x \in BOOLEAN : x = (run.loop.b \/ swaps)
    OBVIOUS
  <2>3. PICK loop : loop = LoopAt(a, i + 1, x)
    OBVIOUS
  <2>4. run' = [run EXCEPT !.loop = loop]
    BY <2>1, <2>2, <2>3
  <2>5. /\ run'.loop = loop /\ run'.cmp = run.cmp /\ run'.short = run.short
        /\ run'.left = run.left /\ run'.before = run.before
    BY <1>2, <2>4 DEF SortT
  <2>6. run.left <= MaxMeddles
    BY <1>1 DEF SortInv, SortOnTrack
  <2>7. ASSUME run.left = MaxMeddles
        PROVE  /\ ~run.short
               /\ ToSet(a.cells) = ToSet(run.before)
               /\ InvertedRightly(a.cells, run.before, run.cmp)
               /\ OnTrack(loop, a, run.cmp)
    <3>1. /\ ~run.short /\ ToSet(self.cells) = ToSet(run.before)
          /\ InvertedRightly(self.cells, run.before, run.cmp) /\ OnTrack(run.loop, self, run.cmp)
      BY <1>1, <2>7 DEF SortInv, SortOnTrack
    <3>2. i \in 1..self.l - 1 /\ i < self.l /\ i + 1 \in Nat \ {0} /\ i + 1 <= self.l
      BY <1>2, <1>3, <3>1
    <3>3. PICK y \in Keys, z \in Keys : y = self.cells[i].key /\ z = self.cells[i + 1].key
      <4>1. i \in 1..self.l /\ i + 1 \in 1..self.l
        BY <1>3, <3>2
      <4>2. self.cells[i] \in CellT /\ self.cells[i + 1] \in CellT
        BY <1>3, <4>1, GoodCells
      <4> QED BY <4>2 DEF CellT
    <3>4. run.loop.args = <<y, z>> /\ (~run.loop.b => InOrder(self.cells, i, run.cmp))
      BY <1>1, <3>1, <3>3 DEF OnTrack
    <3>5. PICK d \in Int : d = run.cmp[<<y, z>>] /\ (swaps <=> d > 0)
      <4>1. run.cmp[<<y, z>>] \in Int
        BY <1>2, ComparesInts
      <4> QED BY <3>4, <4>1 DEF GreaterFirst
    <3>6. CASE swaps
      <4>1. a = Swapped(self, i) /\ x = TRUE
        BY <2>2, <3>2, <3>6
      <4>2. run.cmp[<<self.cells[i].key, self.cells[i + 1].key>>] > 0
        BY <3>3, <3>5, <3>6
      <4> HIDE DEF a, swaps
      <4>3. Good(a) /\ a.l = self.l
        BY <1>3, <3>2, <4>1, SwappedIs
      <4>4. ToSet(a.cells) = ToSet(run.before)
        BY <1>3, <3>1, <3>2, <4>1, SwapKeepsSet
      <4>5. InvertedRightly(a.cells, run.before, run.cmp)
        BY <1>2, <1>3, <3>1, <3>2, <4>1, <4>2, SwapInverts
      <4>6. OnTrack(loop, a, run.cmp)
        <5>1. PICK k \in Nat \ {0} : k = i + 1 /\ k <= a.l
          BY <3>2, <4>3
        <5>2. OnTrack(LoopAt(a, k, x), a, run.cmp)
          BY <4>1, <4>3, <5>1, LoopTracks
        <5> QED BY <2>3, <5>1, <5>2
      <4> QED BY <3>1, <4>4, <4>5, <4>6
    <3>7. CASE ~swaps
      <4>1. a = self /\ x = run.loop.b
        BY <1>2, <2>2, <3>7
      <4>2. d <= 0
        BY <3>5, <3>7
      <4> HIDE DEF a, swaps
      <4>3. ~x => InOrder(self.cells, i + 1, run.cmp)
        <5> SUFFICES ASSUME ~x, NEW j \in 1..(i + 1) - 1
                     PROVE  run.cmp[<<self.cells[j].key, self.cells[j + 1].key>>] <= 0
          BY DEF InOrder
        <5>1. CASE j = i
          BY <3>3, <3>5, <4>2, <5>1
        <5>2. CASE j # i
          <6>1. j \in 1..i - 1
            BY <1>2, <5>2
          <6>2. InOrder(self.cells, i, run.cmp)
            BY <3>4, <4>1
          <6> QED BY <6>1, <6>2 DEF InOrder
        <5> QED BY <5>1, <5>2
      <4>4. OnTrack(loop, a, run.cmp)
        <5>1. PICK k \in Nat \ {0} : k = i + 1 /\ k <= self.l
          BY <3>2
        <5>2. ~x => InOrder(self.cells, k, run.cmp)
          BY <4>3, <5>1
        <5>3. OnTrack(LoopAt(self, k, x), self, run.cmp)
          BY <1>3, <5>1, <5>2, LoopTracks
        <5> QED BY <2>3, <4>1, <5>1, <5>3
      <4> QED BY <3>1, <4>1, <4>4
    <3> QED BY <3>6, <3>7
  <2> HIDE DEF a
  <2> QED BY <2>1, <2>5, <2>6, <2>7 DEF SortOnTrack
<1> QED BY <1>4, <1>5

LEMMA MeddlingUntracks ==
  ASSUME SortInv, MeddlePop \/ MeddleClear \/ \E k \in Keys : MeddlePush(k)
  PROVE  SortOnTrack'
<1>1. PICK m, shortens : Meddle(m, shortens)
  BY DEF MeddlePop, MeddleClear, MeddlePush
<1>2. CASE InSort
  <2>1. run \in SortT /\ run.left \in Int /\ run.left <= MaxMeddles
    BY <1>2, SortingIs DEF SortInv, SortOnTrack, IInv, SortRuns, SortT
  <2>2. PICK s : s = (run.short \/ shortens)
    OBVIOUS
  <2>3. run' = [run EXCEPT !.left = run.left - 1, !.short = s]
    BY <1>1, <1>2, <2>2 DEF Meddle
  <2>4. run'.left = run.left - 1
    BY <2>1, <2>3 DEF SortT
  <2>5. run'.left <= MaxMeddles /\ run'.left # MaxMeddles
    BY <2>1, <2>4, ListsAssumption
  <2> QED BY <2>5 DEF SortOnTrack
<1>3. CASE ~InSort
  <2>1. run'.op = run.op
    BY MeddlePopStep, MeddleClearStep, MeddlePushStep DEF SortInv
  <2> QED BY <1>3, <2>1 DEF SortOnTrack, InSort
<1> QED BY <1>2, <1>3

LEMMA NotSorting ==
  ASSUME run'.op # "sort" PROVE SortOnTrack'
BY DEF SortOnTrack, InSort

LEMMA SortStandsStill ==
  ASSUME SortInv, run' = run, self' = self PROVE SortOnTrack'
<1>1. SortOnTrack
  BY DEF SortInv
<1> QED BY <1>1 DEF SortOnTrack, InSort, OnTrack

LEMMA SortRests ==
  ASSUME run' = Free \/ run' = Ended("exited") \/ run' = Ended("undefined") PROVE SortOnTrack'
<1>1. run'.op # "sort"
  BY DEF Free, Ended
<1> QED BY <1>1, NotSorting

LEMMA SortChanges ==
  ASSUME Change PROVE SortOnTrack'
BY SortRests DEF Change

LEMMA SortElsewhere ==
  ASSUME SortInv,
         \/ ForEach \/ FilterReturns \/ ForEachReturns
         \/ \E p \in Predicates : Filter(p)
  PROVE  SortOnTrack'
<1>1. run'.op # "sort"
  BY FilterStep, ForEachStep, FilterReturnsStep, ForEachReturnsStep DEF SortInv
<1> QED BY <1>1, NotSorting

LEMMA SortNextStep ==
  ASSUME SortInv, [Next]_vars
  PROVE  SortInv'
<1> SUFFICES SortOnTrack'
  BY NextStep DEF SortInv
<1>1. CASE UNCHANGED vars \/ \E c \in Questions : Ask(c)
  BY <1>1, SortStandsStill DEF Ask, vars
<1>2. CASE \E ks \in Lists : Assign(ks) \/ Push(ks) \/ Merge(ks)
  BY <1>2, SortChanges DEF Assign, Push, Merge
<1>3. CASE \E ks \in Lists : MergeExhausts(ks)
  BY <1>3, SortRests DEF MergeExhausts
<1>4. CASE \E n \in Indexes : RemoveIndex(n)
  <2>1. run' = Free
    BY <1>4 DEF RemoveIndex
  <2> QED BY <2>1, SortRests
<1>5. CASE Clear
  BY <1>5, SortChanges DEF Clear
<1>6. CASE Pop
  <2>1. run' = Free \/ run' = Ended("undefined")
    BY <1>6 DEF Pop
  <2> QED BY <2>1, SortRests
<1>7. CASE \E cmp \in Comparators : Sort(cmp)
  BY <1>7, SortTracked DEF SortInv
<1>8. CASE SortReturns
  BY <1>8, SortReturnTracked
<1>9. CASE SortEnds \/ FilterEnds \/ ForEachEnds \/ CallbackThrows
  <2>1. run' = Free
    BY <1>9 DEF SortEnds, FilterEnds, ForEachEnds, CallbackThrows
  <2> QED BY <2>1, SortRests
<1>10. CASE ForEach \/ FilterReturns \/ ForEachReturns \/ \E p \in Predicates : Filter(p)
  BY <1>10, SortElsewhere
<1>11. CASE MeddlePop \/ MeddleClear \/ \E k \in Keys : MeddlePush(k)
  BY <1>11, MeddlingUntracks
<1> QED
  BY <1>1, <1>2, <1>3, <1>4, <1>5, <1>6, <1>7, <1>8, <1>9, <1>10, <1>11 DEF Next, Callback

(* Besides the account: as long as its comparator leaves the array alone,   *)
(* _sort has moved no element but past one that the comparator said is      *)
(* smaller, and a pass without a swap has left order behind it.             *)
THEOREM SortInvariantHolds == Spec => []SortInv
<1>1. Init => SortInv
  BY InitInv DEF Init, SortInv, SortOnTrack, InSort, Free
<1>2. SortInv /\ [Next]_vars => SortInv'
  BY SortNextStep
<1> QED BY <1>1, <1>2, PTL DEF Spec

(* _sort returns with the elements it was given, in order, and elements     *)
(* that compare equal in the order they were in, for every comparator that  *)
(* is consistent and leaves the array alone, and every array.               *)
THEOREM SortSortsHolds == Spec => SortSorts
<1>1. SortInv /\ SortEnds /\ Consistent(run.cmp) /\ run.left = MaxMeddles
        => Stable(Elements(self'), run.before, run.cmp)
  <2> SUFFICES ASSUME SortInv, SortEnds, Consistent(run.cmp), run.left = MaxMeddles
               PROVE  Stable(Elements(self'), run.before, run.cmp)
    OBVIOUS
  <2>1. InSort /\ ~run.loop.calling /\ self' = self
    BY DEF SortEnds
  <2>2. run.cmp \in Comparators /\ run.before \in Seq(CellT)
    BY <2>1, SortingIs DEF SortInv, IInv, SortRuns, SortT
  <2>3. Good(self) /\ Elements(self') = self.cells
    BY <2>1, AccountOf, ElementsAre DEF SortInv, IInv
  <2>4. /\ ToSet(self.cells) = ToSet(run.before) /\ InvertedRightly(self.cells, run.before, run.cmp)
        /\ InOrder(self.cells, self.l, run.cmp)
    BY <2>1 DEF SortInv, SortOnTrack, OnTrack
  <2>5. Stable(self.cells, run.before, run.cmp)
    BY <2>2, <2>3, <2>4, SortedIs
  <2> QED BY <2>3, <2>5
<1>2. SortInv => (SortEnds /\ Consistent(run.cmp) /\ run.left = MaxMeddles
                   => Stable(Elements(self'), run.before, run.cmp))
  BY <1>1
<1> QED BY <1>2, SortInvariantHolds, PTL DEF SortSorts
=============================================================================
