------------------------------- MODULE Arrays -------------------------------
(***************************************************************************)
(* The array that the compiler generates for every type `T[]`              *)
(* (codegen/type-array.cpp): a block d of cells and a length l.            *)
(*                                                                         *)
(* One array variable of a program is called upon.  A cell is a key (what  *)
(* the element is equal to) and own (the memory the element owns, as an    *)
(* element of a type with shouldBeFreed does).  A call that takes its      *)
(* array by value is given a copy, which it frees, and the caller frees    *)
(* the array it gets.  Calls that call back into the program are one       *)
(* action per callback, and the callback may throw or may itself call a    *)
(* method of the variable; all other calls are one action.                 *)
(***************************************************************************)
EXTENDS Integers, Sequences, SequencesExt, FiniteSets

CONSTANTS
  Keys,
  Lists,         \* the literals of the program, as sequences of keys
  Indexes,       \* the indexes it uses
  Comparators,   \* functions of two keys to an integer
  Predicates,    \* sets of the keys that are kept
  MaxLen,        \* bound: no call makes the array longer
  MaxMeddles,    \* bound: methods called on the variable during one call
  Memory         \* identities of the memory that elements own, as numbers

ASSUME ListsAssumption ==
  /\ MaxLen \in Nat /\ MaxMeddles \in Nat /\ Indexes \subseteq Int
  /\ \A ks \in Lists : ks \in Seq(Keys) /\ Len(ks) <= MaxLen
ASSUME ComparatorsAssumption ==
  Comparators \subseteq [Keys \X Keys -> Int]
ASSUME MemoryAssumption ==
  /\ Memory \subseteq Nat /\ IsFiniteSet(Memory)
  /\ Cardinality(Memory) >= 5 * MaxLen   \* an array, two copies, their concatenation

VARIABLES
  self,    \* the array variable
  heap,    \* the memory that elements own, the blocks, whether free went wrong
  run      \* the call in progress, or how the program ended

vars == <<self, heap, run>>

-----------------------------------------------------------------------------
(* Arrays and memory.  A step of a method is a record of the heap h and of *)
(* the array a it made.                                                    *)

NullArray == [null |-> TRUE, cells |-> <<>>, l |-> 0]

Elements(a) == SubSeq(a.cells, 1, a.l)
KeysOf(a)   == [i \in 1..a.l |-> a.cells[i].key]
OwnOf(a)    == {a.cells[i].own : i \in 1..a.l}
BlockOf(a)  == IF a.null THEN 0 ELSE 1

NthFree(h, i) ==
  CHOOSE m \in Memory \ h.own : Cardinality({k \in Memory \ h.own : k < m}) = i - 1
Cells(h, ks)  == [i \in DOMAIN ks |-> [key |-> ks[i], own |-> NthFree(h, i)]]

(* d = alloc(l * sizeof(element)), then a copy of each element *)
Made(h, ks) ==
  LET cells == Cells(h, ks) IN
  [h |-> [h EXCEPT !.own = @ \cup {cells[i].own : i \in DOMAIN cells}, !.blocks = @ + 1],
   a |-> [null |-> FALSE, cells |-> cells, l |-> Len(ks)]]

Alloc(h, ks) == IF ks = <<>> THEN [h |-> h, a |-> NullArray] ELSE Made(h, ks)
Copy(h, a)   == IF a.l = 0 THEN [h |-> h, a |-> NullArray] ELSE Made(h, KeysOf(a))

Freed(h, a) ==
  [h EXCEPT !.own = @ \ OwnOf(a), !.blocks = @ - BlockOf(a),
            !.bad = @ \/ ~OwnOf(a) \subseteq h.own \/ Cardinality(OwnOf(a)) # a.l]

(* free(p) of the element in a cell *)
FreedCell(h, cell) ==
  [h EXCEPT !.own = @ \ {cell.own}, !.bad = @ \/ cell.own \notin h.own]

(* re_alloc(d, n * sizeof(element)).  A block that is asked to hold nothing *)
(* is freed, and the NULL that realloc then returns ends the program, as    *)
(* running out of memory does; asking for nothing where d is NULL is a      *)
(* malloc(0), which succeeds.                                               *)
Exhausted(a, n) == ~a.null /\ n = 0
Grown(h, a, n)  == [h |-> [h EXCEPT !.blocks = @ + 1 - BlockOf(a)],
                    a |-> [null |-> FALSE, cells |-> Elements(a), l |-> n]]

-----------------------------------------------------------------------------
(* The methods that answer.  Each is given the copy s that the caller made. *)

Throws  == <<>>
Garbage == -1      \* what lies behind a block
Read(a, i) == IF i \in DOMAIN a.cells THEN a.cells[i].key ELSE Garbage

(* Cells count from 1, indexes from 0 and from -1 backwards. *)
OutOfBounds_LastPlusOne(l, n) == n > l \/ n < -l
OutOfBounds(l, n) == (n >= 0 /\ n >= l) \/ (n < 0 /\ n < -l)
Cell(l, n)        == IF n < 0 THEN l + n + 1 ELSE n + 1
Bounded(l, n)     == IF n < 0 THEN (IF n < -l THEN 0 ELSE n + l) ELSE (IF n > l THEN l ELSE n)

At(a, n)  == IF OutOfBounds(a.l, n) THEN Throws ELSE <<Read(a, Cell(a.l, n))>>
First(a)  == IF a.l = 0 THEN Throws ELSE <<Read(a, 1)>>
LastOf(a) == IF a.l = 0 THEN Throws ELSE <<Read(a, a.l)>>

Says(s, v)  == [h |-> Freed(s.h, s.a), v |-> <<v>>]
Makes(h, a) == Says([h |-> h, a |-> a], KeysOf(a))

ContainsKey(s, key) == Says(s, \E i \in 1..s.a.l : s.a.cells[i].key = key)
StrOf(s)            == Says(s, KeysOf(s.a))
CopyOf(s)           == Makes(s.h, s.a)
Reversed(s) ==
  LET m == Made(s.h, [i \in 1..s.a.l |-> s.a.cells[s.a.l - (i - 1)].key]) IN
  IF s.a.l = 0 THEN Says(s, <<>>) ELSE Makes(Freed(m.h, s.a), m.a)

Equal(s, n) ==
  /\ s.a.l = n.a.l
  /\ \A i \in 1..s.a.l : s.a.cells[i].key = n.a.cells[i].key
Both(s, n, v) == [h |-> Freed(Freed(n.h, s.a), n.a), v |-> <<v>>]

Concat_KeepsOther(s, n) ==
  LET m == Made(n.h, KeysOf(s.a) \o KeysOf(n.a)) IN Makes(Freed(m.h, s.a), m.a)
Concat(s, n) ==
  LET m == Made(n.h, KeysOf(s.a) \o KeysOf(n.a)) IN Makes(Freed(Freed(m.h, n.a), s.a), m.a)

Slice(s, c) ==
  LET i1 == Bounded(s.a.l, c.from)
      i2 == IF c.toEnd THEN s.a.l ELSE Bounded(s.a.l, c.to)
      m  == Made(s.h, [i \in 1..i2 - i1 |-> s.a.cells[i1 + i].key]) IN
  IF i1 > i2 \/ i1 >= s.a.l THEN Says(s, <<>>) ELSE Makes(Freed(m.h, s.a), m.a)

Answer(c) ==
  LET s == Copy(heap, self)
      n == Alloc(s.h, c.other) IN
  CASE c.op = "at"       -> [h |-> heap, v |-> At(self, c.i)]
    [] c.op = "first"    -> [h |-> heap, v |-> First(self)]
    [] c.op = "last"     -> [h |-> heap, v |-> LastOf(self)]
    [] c.op = "len"      -> Says(s, s.a.l)
    [] c.op = "empty"    -> Says(s, s.a.l = 0)
    [] c.op = "str"      -> StrOf(s)
    [] c.op = "copy"     -> CopyOf(s)
    [] c.op = "reverse"  -> Reversed(s)
    [] c.op = "contains" -> ContainsKey(s, c.key)
    [] c.op = "slice"    -> Slice(s, c)
    [] c.op = "concat"   -> Concat(s, n)
    [] c.op = "eq"       -> Both(s, n, Equal(s, n))
    [] c.op = "ne"       -> Both(s, n, ~Equal(s, n))

Questions ==
  [op : {"first", "last", "len", "empty", "str", "copy", "reverse"}]
  \cup [op : {"at"}, i : Indexes]
  \cup [op : {"contains"}, key : Keys]
  \cup [op : {"concat", "eq", "ne"}, other : Lists]
  \cup [op : {"slice"}, from : Indexes, to : Indexes, toEnd : BOOLEAN]

-----------------------------------------------------------------------------
(* The methods that change the array: the heap and the array afterwards. *)

Cleared(h, a)    == [h |-> Freed(h, a), a |-> NullArray]
Replaced(h, a, ks) == LET m == Alloc(h, ks) IN [h |-> Freed(m.h, a), a |-> m.a]

(* The elements of m are moved, its block is freed. *)

Pushed(h, a, ks) ==
  LET m == Alloc(h, ks)
      g == Grown(m.h, a, a.l + m.a.l) IN
  IF m.a.l = 0 THEN [h |-> h, a |-> a]
  ELSE [h |-> [g.h EXCEPT !.blocks = @ - 1], a |-> [g.a EXCEPT !.cells = @ \o m.a.cells]]

(* The elements of m are copied, m is freed. *)
Merged(h, a, ks) ==
  LET m == Alloc(h, ks)
      g == Grown(m.h, a, a.l + m.a.l)
      c == Cells(g.h, KeysOf(m.a)) IN
  [h |-> Freed([g.h EXCEPT !.own = @ \cup {c[i].own : i \in DOMAIN c}], m.a),
   a |-> [g.a EXCEPT !.cells = @ \o c]]

(* The cells from the new length on stay in the block, where nothing reads  *)
(* them again.  The caller of _pop frees the element it gets.               *)
Shrunk(a, cells) == [a EXCEPT !.l = @ - 1, !.cells = SubSeq(cells, 1, a.l - 1)]
Popped(h, a)     == [h |-> FreedCell(h, a.cells[a.l]), a |-> Shrunk(a, a.cells)]

(* memmove(&d[i], &d[i + 1], (l - 1 - i) * sizeof(element)) *)
Moved_OneLess(cells, i, l) ==
  [j \in 1..l |-> IF j \in i..l - 2 THEN cells[j + 1] ELSE cells[j]]
Moved(cells, i, l) ==
  [j \in 1..l |-> IF j \in i..l - 1 THEN cells[j + 1] ELSE cells[j]]
Removed(h, a, i) == [h |-> FreedCell(h, a.cells[i]), a |-> Shrunk(a, Moved(a.cells, i, a.l))]

-----------------------------------------------------------------------------
Free         == [op |-> "free"]
Ended(how)   == [op |-> how]

Becomes(m)    == heap' = m.h /\ self' = m.a

Init ==
  /\ self = NullArray
  /\ heap = [own |-> {}, blocks |-> 0, bad |-> FALSE, lost |-> FALSE]
  /\ run = Free

Ask(c) ==
  /\ run = Free
  /\ heap' = Answer(c).h
  /\ UNCHANGED <<self, run>>

Change == run = Free /\ UNCHANGED run

Clear      == Change /\ Becomes(Cleared(heap, self))
Assign(ks) == Change /\ Becomes(Replaced(heap, self, ks))
Push(ks)   == Change /\ self.l + Len(ks) <= MaxLen /\ Becomes(Pushed(heap, self, ks))

Merge(ks) ==
  /\ Change /\ self.l + Len(ks) <= MaxLen
  /\ ~Exhausted(self, self.l + Len(ks))
  /\ Becomes(Merged(heap, self, ks))

MergeExhausts(ks) ==
  /\ run = Free /\ Exhausted(self, self.l + Len(ks))
  /\ run' = Ended("exited")
  /\ UNCHANGED <<self, heap>>

(* pop of an empty array decrements the length below zero, and reads there. *)
PopLength == self.l > 0
Pop ==
  /\ run = Free
  /\ IF PopLength
     THEN Becomes(Popped(heap, self)) /\ UNCHANGED run
     ELSE run' = Ended("undefined") /\ UNCHANGED <<self, heap>>

RemoveIndex(n) ==
  /\ run = Free
  /\ IF OutOfBounds(self.l, n)
     THEN UNCHANGED <<self, heap>>   \* an error is thrown
     ELSE Becomes(Removed(heap, self, Cell(self.l, n)))
  /\ UNCHANGED run

-----------------------------------------------------------------------------
(* The methods that call back. *)

(* The loop goes on at i, or the pass is over and another begins at 1.  The *)
(* arguments of the comparator are copies of the two elements.              *)
PassOver(b)    == [i |-> 0, b |-> b, calling |-> FALSE, args |-> <<>>]
Compares(a, i, b) ==
  [i |-> i, b |-> b, calling |-> TRUE, args |-> <<a.cells[i].key, a.cells[i + 1].key>>]
NextPass_Once(a) == PassOver(FALSE)
NextPass(a) == IF 1 < a.l THEN Compares(a, 1, FALSE) ELSE PassOver(FALSE)
LoopAt(a, i, b)  ==
  IF i < a.l THEN Compares(a, i, b) ELSE IF b THEN NextPass(a) ELSE PassOver(FALSE)

Sort(cmp) ==
  /\ run = Free
  /\ run' = [op |-> "sort", cmp |-> cmp, left |-> MaxMeddles, short |-> FALSE,
             before |-> Elements(self), loop |-> NextPass(self)]
  /\ UNCHANGED <<self, heap>>

InSort   == run.op = "sort"
Sorting  == InSort /\ run.loop.calling
Swapped(a, i) == [a EXCEPT !.cells[i + 1] = a.cells[i], !.cells[i] = a.cells[i + 1]]

GreaterFirst_OrEqual(c) == c >= 0
GreaterFirst(c) == c > 0

(* A comparator that shortened the array leaves the loop with elements that *)
(* are no longer the array's.                                               *)
SortReturns ==
  /\ Sorting
  /\ LET i == run.loop.i
         swaps == GreaterFirst(run.cmp[run.loop.args])
         a == IF swaps /\ i < self.l THEN Swapped(self, i) ELSE self IN
     IF swaps /\ i >= self.l
     THEN run' = Ended("undefined") /\ UNCHANGED self
     ELSE /\ self' = a
          /\ run' = [run EXCEPT !.loop = LoopAt(a, i + 1, @.b \/ swaps)]
  /\ UNCHANGED heap

SortEnds ==
  /\ InSort /\ ~run.loop.calling
  /\ run' = Free /\ UNCHANGED <<self, heap>>

(* filter and forEach go over the copy they were given. *)
Filter(p) ==
  /\ run = Free
  /\ LET s == Copy(heap, self)
         d == Made(s.h, <<>>) IN
     /\ heap' = d.h
     /\ run' = [op |-> "filter", keep |-> p, left |-> MaxMeddles, i |-> 1, src |-> s.a, out |-> d.a]
  /\ UNCHANGED self

InFilter  == run.op = "filter"
Filtering == InFilter /\ run.i <= run.src.l

FilterReturns ==
  /\ Filtering
  /\ LET key == run.src.cells[run.i].key
         c   == Cells(heap, <<key>>)
         more == [run EXCEPT !.i = @ + 1] IN
     IF key \in run.keep
     THEN /\ heap' = [heap EXCEPT !.own = @ \cup {c[1].own}]
          /\ run' = [more EXCEPT !.out.cells = @ \o c, !.out.l = @ + 1]
     ELSE run' = more /\ UNCHANGED heap
  /\ UNCHANGED self

FilterEnds ==
  /\ InFilter /\ ~Filtering
  /\ heap' = Freed(Freed(heap, run.src), run.out)
  /\ run' = Free
  /\ UNCHANGED self

ForEach ==
  /\ run = Free
  /\ LET s == Copy(heap, self) IN
     heap' = s.h /\ run' = [op |-> "forEach", left |-> MaxMeddles, seen |-> <<>>, src |-> s.a]
  /\ UNCHANGED self

InForEach == run.op = "forEach"
Visiting  == InForEach /\ Len(run.seen) < run.src.l

ForEachReturns ==
  /\ Visiting
  /\ run' = [run EXCEPT !.seen = Append(@, run.src.cells[Len(@) + 1].key)]
  /\ UNCHANGED <<self, heap>>

ForEachEnds ==
  /\ InForEach /\ ~Visiting
  /\ heap' = Freed(heap, run.src)
  /\ run' = Free
  /\ UNCHANGED self

(* The callback calls a method of the variable itself. *)
InCallback == Sorting \/ Filtering \/ Visiting

Meddle(m, shortens) ==
  /\ InCallback /\ run.left > 0
  /\ Becomes(m)
  /\ run' = IF InSort THEN [run EXCEPT !.left = @ - 1, !.short = @ \/ shortens]
            ELSE [run EXCEPT !.left = @ - 1]

MeddlePop     == InCallback /\ self.l > 0 /\ Meddle(Popped(heap, self), TRUE)
MeddleClear   == Meddle(Cleared(heap, self), TRUE)
MeddlePush(k) == self.l < MaxLen /\ Meddle(Pushed(heap, self, <<k>>), FALSE)

(* The local arrays of the loop: the copy and what filter builds. *)
Source == IF InFilter \/ InForEach THEN run.src ELSE NullArray
Built  == IF InFilter THEN run.out ELSE NullArray

(* The callback throws: longjmp leaves the loop.  Nothing points any longer *)
(* to the copy and to the array being built, whose memory is lost; heap     *)
(* forgets it, but for the fact.                                            *)
CallbackThrows ==
  /\ InCallback
  /\ heap' = [Freed(Freed(heap, Source), Built) EXCEPT !.lost = @ \/ InFilter \/ InForEach]
  /\ run' = Free
  /\ UNCHANGED self

-----------------------------------------------------------------------------
Callback ==
  \/ SortReturns \/ SortEnds
  \/ FilterReturns \/ FilterEnds
  \/ ForEachReturns \/ ForEachEnds

Next ==
  \/ \E c \in Questions : Ask(c)
  \/ \E ks \in Lists : Assign(ks) \/ Push(ks) \/ Merge(ks) \/ MergeExhausts(ks)
  \/ \E n \in Indexes : RemoveIndex(n)
  \/ Clear \/ Pop
  \/ \E cmp \in Comparators : Sort(cmp)
  \/ \E p \in Predicates : Filter(p)
  \/ ForEach
  \/ Callback
  \/ MeddlePop \/ MeddleClear \/ \E k \in Keys : MeddlePush(k)
  \/ CallbackThrows

(* A callback that is called returns or throws at some time. *)
Spec == Init /\ [][Next]_vars /\ WF_vars(Callback)

-----------------------------------------------------------------------------
TypeOK ==
  /\ self.null \in BOOLEAN /\ self.l \in 0..MaxLen /\ Len(self.cells) = self.l
  /\ \A i \in DOMAIN self.cells : self.cells[i] \in [key : Keys, own : Memory]
  /\ heap.own \subseteq Memory /\ heap.blocks \in 0..3 /\ heap.bad \in BOOLEAN /\ heap.lost \in BOOLEAN
  /\ run.op \in {"free", "sort", "filter", "forEach", "exited", "undefined"}

(* Between two steps every piece of memory is owned by exactly one element *)
(* of the arrays there are, every block is the block of one of them, and   *)
(* nothing was freed twice: the copies, the moves of _push, the memmove of *)
(* _remove and the swaps of _sort each keep the account.                   *)
OwnedOnce ==
  /\ TypeOK
  /\ ~heap.bad
  /\ heap.own = OwnOf(self) \cup OwnOf(Source) \cup OwnOf(Built)
  /\ heap.blocks = BlockOf(self) + BlockOf(Source) + BlockOf(Built)
  /\ self.l + Source.l + Built.l = Cardinality(heap.own)

(* A comparator that orders its elements, ties allowed. *)
Consistent(cmp) ==
  /\ \A a, b \in Keys : cmp[<<a, b>>] > 0 <=> cmp[<<b, a>>] < 0
  /\ \A a, b, c \in Keys :
       cmp[<<a, b>>] <= 0 /\ cmp[<<b, c>>] <= 0 => cmp[<<a, c>>] <= 0

(* After _sort with such a comparator the array holds the elements it held, *)
(* in order, and elements that compare equal are in the order they were in: *)
(* the passes of swaps of neighbours are a stable sort.                     *)
Stable(s, t, cmp) ==
  /\ ToSet(s) = ToSet(t)
  /\ \A i, j \in DOMAIN s : i < j =>
       LET c == cmp[<<s[i].key, s[j].key>>] IN
       c < 0 \/ (c = 0 /\ \E p, q \in DOMAIN t : p < q /\ t[p] = s[i] /\ t[q] = s[j])
SortSorts ==
  [][SortEnds /\ Consistent(run.cmp) /\ run.left = MaxMeddles
       => Stable(Elements(self'), run.before, run.cmp)]_vars

(* A call that calls back ends if its callbacks do; the `while (1)` of _sort *)
(* needs in addition that the comparator is consistent, and survives one     *)
(* that lengthens the array under it.                                        *)
CallsEnd ==
  (InFilter \/ InForEach \/ (InSort /\ Consistent(run.cmp))) ~> run.op \in {"free", "undefined"}
=============================================================================
