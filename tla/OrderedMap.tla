----------------------------- MODULE OrderedMap -----------------------------
(***************************************************************************)
(* The map that the compiler generates for every type `V[K]`               *)
(* (codegen/type-map.cpp): an array of pairs d with a length l and a       *)
(* capacity c, searched from the front.                                    *)
(*                                                                         *)
(* Some map variables of a program are operated on.  A map is a record of  *)
(* pairs (the first l elements of d), c, room (how many pairs the heap     *)
(* block behind d can hold) and null (whether d is NULL).  Writing a pair  *)
(* that the block has no room for crashes the program.  The loop of _merge *)
(* is one action per iteration, everything else one action per call.       *)
(***************************************************************************)
EXTENDS Integers, Sequences, FiniteSets

CONSTANTS
  Vars,               \* the map variables of the program
  NoVar,
  Keys, Values,
  MaxLen,             \* bound: the length and capacity that calls ask for
  SizeMod,            \* 2^(width of size_t), scaled down
  DuplicateLiterals   \* whether literals may repeat a key

ASSUME VarsAssumption == IsFiniteSet(Vars) /\ NoVar \notin Vars
ASSUME SizeAssumption ==
  MaxLen \in Nat /\ SizeMod \in Nat /\ SizeMod > 2 * MaxLen + 2

VARIABLES
  map,      \* the map of each variable
  into,     \* the target of the _merge in progress
  todo,     \* the pairs it still has to merge
  status,   \* running, crashed, or exited with an allocation error
  blocks    \* how many heap blocks hold pairs

vars == <<map, into, todo, status, blocks>>

Pair(k, v) == [f |-> k, s |-> v]
Pairs      == [f : Keys, s : Values]
Maps       == [pairs : Seq(Pairs), c : Nat, room : Nat, null : BOOLEAN]

-----------------------------------------------------------------------------
(* The search loops: for (i = 0; i < l; i++) if (d[i].f == k). *)

Found(pairs, k) == {i \in DOMAIN pairs : pairs[i].f = k}
FirstIn(s)      == CHOOSE i \in s : \A j \in s : i <= j
Has(m, k)       == Found(m.pairs, k) # {}
Get(m, k)       == m.pairs[FirstIn(Found(m.pairs, k))].s
KeysOf(m)       == [i \in DOMAIN m.pairs |-> m.pairs[i].f]
ValuesOf(m)     == [i \in DOMAIN m.pairs |-> m.pairs[i].s]

Distinct(pairs) == \A i, j \in DOMAIN pairs : pairs[i].f = pairs[j].f => i = j

Eq_KeysOnly(m, n) == KeysOf(m) = KeysOf(n)
Eq(m, n) ==
  /\ Len(m.pairs) = Len(n.pairs)
  /\ \A i \in DOMAIN m.pairs :
       m.pairs[i].f = n.pairs[i].f /\ m.pairs[i].s = n.pairs[i].s

-----------------------------------------------------------------------------
(* A fresh block, as _alloc and _copy return it. *)
Fresh(pairs, c) == [pairs |-> pairs, c |-> c, room |-> c, null |-> FALSE]

(* n->d = re_alloc(n->d, (n->c = c) * sizeof(pair)) *)
Grown(m, c) == [m EXCEPT !.c = c, !.room = c, !.null = FALSE]

(* if (l > n->c) n->d = re_alloc(n->d, (n->c = l) * sizeof(pair)) *)
Fits(m, l) == l <= m.c
Ensured(m, l) == IF Fits(m, l) THEN m ELSE Grown(m, l)

(* An update in place, or else one more pair behind the others. *)
NewPairs_AtFront(pairs, k, v) == <<Pair(k, v)>> \o pairs
NewPairs(pairs, k, v) == Append(pairs, Pair(k, v))

Lookup_Missed(pairs, k) == Found(pairs, k) \ {1}
Lookup(pairs, k) == Found(pairs, k)

Updated(pairs, k, v) ==
  IF Lookup(pairs, k) # {}
  THEN [pairs EXCEPT ![FirstIn(Lookup(pairs, k))].s = v]
  ELSE NewPairs(pairs, k, v)

Put(m, k, v) == [m EXCEPT !.pairs = Updated(@, k, v)]

(* The write that Put does is inside of the block. *)
CanPut(m, k) == Lookup(m.pairs, k) # {} \/ Len(m.pairs) < m.room

Without_LastMoved(pairs, i) ==
  [j \in 1..Len(pairs) - 1 |-> pairs[IF j = i THEN Len(pairs) ELSE j]]
Without(pairs, i) == SubSeq(pairs, 1, i - 1) \o SubSeq(pairs, i + 1, Len(pairs))

(* How many blocks a map has; free(NULL) frees none. *)
Owned(m) == IF m.null THEN 0 ELSE 1

Replace(x, m) ==
  /\ map' = [map EXCEPT ![x] = m]
  /\ blocks' = blocks - Owned(map[x]) + Owned(m)

Idle == status = "running" /\ into = NoVar
Stays == UNCHANGED <<into, todo, status>>

Init ==
  /\ map = [x \in Vars |-> Fresh(<<>>, 0)]
  /\ into = NoVar /\ todo = <<>>
  /\ status = "running"
  /\ blocks = Cardinality(Vars)

(* A literal with up to two keys; nothing compares them. *)
Literal(x, pairs) ==
  /\ Idle
  /\ DuplicateLiterals \/ Distinct(pairs)
  /\ Replace(x, Fresh(pairs, Len(pairs)))
  /\ Stays

(* _realloc(x, _copy(y)) *)
Assign(x, y) ==
  /\ Idle
  /\ Replace(x, Fresh(map[y].pairs, map[y].c))
  /\ Stays

Set(x, k, v) ==
  LET m == IF Lookup(map[x].pairs, k) # {} THEN map[x]
           ELSE Ensured(map[x], Len(map[x].pairs) + 1) IN
  /\ Idle
  /\ Len(map[x].pairs) < MaxLen
  /\ IF CanPut(m, k)
     THEN Replace(x, Put(m, k, v)) /\ UNCHANGED status
     ELSE status' = "crashed" /\ UNCHANGED <<map, blocks>>
  /\ UNCHANGED <<into, todo>>

(* Nothing happens but a throw when the key is not there. *)
Remove(x, k) ==
  /\ Idle
  /\ Has(map[x], k)
  /\ Replace(x, [map[x] EXCEPT
       !.pairs = Without(@, FirstIn(Found(@, k)))])
  /\ Stays

(* The capacity stays, the block does not. *)
Cleared(m) == [m EXCEPT !.pairs = <<>>, !.room = 0, !.null = TRUE]

Clear(x) == Idle /\ Replace(x, Cleared(map[x])) /\ Stays

(* The argument is an int32_t, compared with and assigned to a size_t; no  *)
(* allocation of half of the address space succeeds.                       *)
AsSize(n)      == n % SizeMod
Allocatable(c) == c < SizeMod \div 2

Reserve(x, n) ==
  /\ Idle
  /\ IF AsSize(n) > map[x].c /\ ~Allocatable(AsSize(n))
     THEN status' = "exited" /\ UNCHANGED <<map, blocks>>
     ELSE Replace(x, Ensured(map[x], AsSize(n))) /\ UNCHANGED status
  /\ UNCHANGED <<into, todo>>

Shrink(x) ==
  LET m == map[x]
      l == Len(m.pairs) IN
  /\ Idle
  /\ l # m.c
  /\ Replace(x, IF l = 0 THEN [Cleared(m) EXCEPT !.c = 0] ELSE Grown(m, l))
  /\ Stays

(* _merge(x, _copy(y)): the room for all of the pairs comes first. *)
MergeRoom_OtherOnly(m, n) == Len(n.pairs)
MergeRoom(m, n) == Len(m.pairs) + Len(n.pairs)

MergeBegin(x, y) ==
  LET m == Ensured(map[x], MergeRoom(map[x], map[y])) IN
  /\ Idle
  /\ MergeRoom(map[x], map[y]) <= MaxLen
  /\ map' = [map EXCEPT ![x] = m]
  /\ blocks' = blocks - Owned(map[x]) + Owned(m) + 1
  /\ into' = x /\ todo' = map[y].pairs
  /\ UNCHANGED status

MergeStep ==
  LET p == Head(todo) IN
  /\ status = "running" /\ todo # <<>>
  /\ IF CanPut(map[into], p.f)
     THEN /\ map' = [map EXCEPT ![into] = Put(@, p.f, p.s)]
          /\ UNCHANGED status
          /\ todo' = Tail(todo)
     ELSE status' = "crashed" /\ UNCHANGED <<map, todo>>
  /\ UNCHANGED <<into, blocks>>

MergeFree_Forgotten == blocks
MergeFree == blocks - 1

MergeEnd ==
  /\ status = "running" /\ into # NoVar /\ todo = <<>>
  /\ into' = NoVar
  /\ blocks' = MergeFree
  /\ UNCHANGED <<map, todo, status>>

Next ==
  \/ \E x \in Vars :
       \/ Literal(x, <<>>)
       \/ \E p, q \in Pairs : Literal(x, <<p>>) \/ Literal(x, <<p, q>>)
       \/ \E y \in Vars : Assign(x, y) \/ MergeBegin(x, y)
       \/ \E k \in Keys : Remove(x, k) \/ \E v \in Values : Set(x, k, v)
       \/ \E n \in -1..MaxLen : Reserve(x, n)
       \/ Clear(x) \/ Shrink(x)
  \/ MergeStep \/ MergeEnd

Spec == Init /\ [][Next]_vars

-----------------------------------------------------------------------------
MapTypes ==
  /\ map \in [Vars -> Maps]
  /\ into \in Vars \cup {NoVar}
  /\ todo \in Seq(Pairs)
  /\ status \in {"running", "crashed", "exited"}

TypeOK == MapTypes /\ blocks \in Nat

(* No sequence of _set, _merge, _remove and literals with distinct keys    *)
(* puts a key into a map twice: _get, _set and _remove stop at the first   *)
(* match and would never reach the second one.                             *)
KeysDistinct == \A x \in Vars : Distinct(map[x].pairs)

Sound(m) ==
  \/ m.room = m.c /\ ~m.null /\ Len(m.pairs) <= m.c
  \/ m.null /\ m.room = 0 /\ m.pairs = <<>>

(* The block of a map has the room that its capacity says and holds all of *)
(* its pairs, unless the map was just cleared: then there is no block, and *)
(* the capacity is the one before.                                         *)
RoomUnlessCleared == \A x \in Vars : Sound(map[x])

(* The one reallocation before the loop of _merge is enough for the whole  *)
(* loop, whatever keys both maps have.                                     *)
MergeFits ==
  into # NoVar => Len(map[into].pairs) + Len(todo) <= map[into].c

(* A write outside of a block happens only through a map whose capacity    *)
(* outlived its block.                                                     *)
CrashOnlyCleared ==
  status = "crashed" => \E x \in Vars : map[x].null /\ map[x].c > 0

(* A map writes inside of its block: its capacity is the room of the block *)
(* before, in and after every operation, a clear excepted.                 *)
CapacitySafe == RoomUnlessCleared /\ MergeFits /\ CrashOnlyCleared

(* Every block has exactly one owner: a map variable, or the copy that     *)
(* _merge was given and frees.                                             *)
BlocksOwned ==
  /\ TypeOK
  /\ blocks = Cardinality({x \in Vars : ~map[x].null})
                + (IF into = NoVar THEN 0 ELSE 1)

(* The generated == holds of two maps exactly when the program can tell    *)
(* them apart by no _get, _has, _keys or _values.                          *)
EqObservational ==
  \A x, y \in Vars : Eq(map[x], map[y]) <=>
    /\ KeysOf(map[x]) = KeysOf(map[y])
    /\ \A k \in Keys : /\ Has(map[x], k) <=> Has(map[y], k)
                       /\ Has(map[x], k) => Get(map[x], k) = Get(map[y], k)
=============================================================================
