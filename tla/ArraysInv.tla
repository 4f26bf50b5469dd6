----------------------------- MODULE ArraysInv ------------------------------
(***************************************************************************)
(* The inductive invariants of Arrays, in named parts: what is in the heap *)
(* and where the loops of _sort, _filter and _forEach are.  TLC can        *)
(* check them on the instance of MCArrays; ArraysProofs proves them.       *)
(***************************************************************************)
EXTENDS ArraysRefinement

HeapT == [own : SUBSET Memory, blocks : Int, bad : BOOLEAN, lost : BOOLEAN]
CellT == [key : Keys, own : Memory]

(* Cells of elements that own different pieces of memory. *)
Apart(cells) == \A i, j \in DOMAIN cells : cells[i].own = cells[j].own => i = j

(* An array that is well made, the heap h with an array more, and an array *)
(* whose memory is none of h.                                              *)

Good(a) ==
  /\ a \in [null : BOOLEAN, cells : Seq(CellT), l : Nat]
  /\ Len(a.cells) = a.l
  /\ a.null => a.l = 0
  /\ Apart(a.cells)

With(h, a) == [own |-> h.own \cup OwnOf(a), blocks |-> h.blocks + BlockOf(a),
               bad |-> h.bad, lost |-> h.lost]

Fresh(h, a) == Good(a) /\ OwnOf(a) \cap h.own = {}

Nothing(lost) == [own |-> {}, blocks |-> 0, bad |-> FALSE, lost |-> lost]

(* The heap h holds the arrays a, s and b, and nothing besides but e. *)
Holds(h, e, a, s, b) ==
  /\ Fresh(e, a) /\ Fresh(With(e, a), s) /\ Fresh(With(With(e, a), s), b)
  /\ h = With(With(With(e, a), s), b)

Account ==
  /\ heap.lost \in BOOLEAN
  /\ Holds(heap, Nothing(heap.lost), self, Source, Built)
  /\ self.l <= MaxLen /\ Source.l <= MaxLen /\ Built.l <= MaxLen

ArrayT  == [null : BOOLEAN, cells : Seq(CellT), l : Nat]
LoopT   == [i : Nat, b : BOOLEAN, calling : BOOLEAN, args : {<<>>} \cup (Keys \X Keys)]
SortT   == [op : {"sort"}, cmp : Comparators, left : Int, short : BOOLEAN,
            before : Seq(CellT), loop : LoopT]
FilterT == [op : {"filter"}, keep : Predicates, left : Int, i : Nat, src : ArrayT, out : ArrayT]
VisitT  == [op : {"forEach"}, left : Int, seen : Seq(Keys), src : ArrayT]

(* The loop of _sort stays within an array that its comparator leaves as    *)
(* long as it was; filter and forEach have gone over what they have gone    *)
(* over.                                                                    *)
Stopped == run \in {Ended("exited"), Ended("undefined")}
SortRuns ==
  /\ run \in SortT
  /\ run.loop.calling => run.loop.i >= 1 /\ (~run.short => run.loop.i < self.l)
FilterRuns ==
  /\ run \in FilterT
  /\ run.i \in 1..run.src.l + 1 /\ run.out.l < run.i /\ run.out.null = FALSE
  /\ Keeps(KeysOf(run.src), run.i - 1, KeysOf(run.out), run.keep)
ForEachRuns ==
  /\ run \in VisitT
  /\ Len(run.seen) <= run.src.l
  /\ \A j \in 1..Len(run.seen) : run.seen[j] = KeysOf(run.src)[j]

Running == run = Free \/ Stopped \/ SortRuns \/ FilterRuns \/ ForEachRuns

(* The heap is the blocks and the elements of the variable and of the local *)
(* arrays of the call in progress, and the call is where its loop can be.   *)
IInv == Account /\ Running

-----------------------------------------------------------------------------
(* _sort while its comparator leaves the array alone. *)

InOrder(s, n, cmp) == \A j \in 1..n - 1 : cmp[<<s[j].key, s[j + 1].key>>] <= 0

(* Elements of s that were the other way round in t were found to be so by *)
(* the comparator.                                                         *)
InvertedRightly(s, t, cmp) ==
  \A i, j \in DOMAIN s : \A p, q \in DOMAIN t :
    i < j /\ p < q /\ s[i] = t[q] /\ s[j] = t[p] => cmp[<<t[p].key, t[q].key>>] > 0

(* The loop holds the arguments it calls back with, and as long as a pass  *)
(* swapped nothing the cells behind it are in order.                       *)
OnTrack(loop, a, cmp) ==
  IF loop.calling
  THEN /\ loop.args = <<a.cells[loop.i].key, a.cells[loop.i + 1].key>>
       /\ ~loop.b => InOrder(a.cells, loop.i, cmp)
  ELSE InOrder(a.cells, a.l, cmp)

SortOnTrack ==
  InSort =>
    /\ run.left <= MaxMeddles
    /\ run.left = MaxMeddles =>
         /\ ~run.short
         /\ ToSet(self.cells) = ToSet(run.before)
         /\ InvertedRightly(self.cells, run.before, run.cmp)
         /\ OnTrack(run.loop, self, run.cmp)

(* Between two calls of its comparator _sort holds the elements it began    *)
(* with, it has moved no element past another but one that the comparator   *)
(* said is greater, and a pass that has swapped nothing leaves order behind *)
(* it; it stops only when a whole pass has.                                 *)
SortInv == IInv /\ SortOnTrack
=============================================================================
