-------------------------- MODULE OrderedMapRefinement -----------------------
(***************************************************************************)
(* OrderedMap as an implementation of KeyedMap: a map is its keys in order *)
(* and a function from them, and a _merge is done when it begins.          *)
(***************************************************************************)
EXTENDS OrderedMap, Places

(* A list of pairs without repeated keys, as a function from its keys. *)
Bound(pairs) ==
  [k \in {pairs[i].f : i \in DOMAIN pairs} |-> pairs[FirstIn(Found(pairs, k))].s]

ContentOf(pairs) == [keys |-> [i \in DOMAIN pairs |-> pairs[i].f], value |-> Bound(pairs)]

(* What a _merge makes of pairs when it has gone over more. *)
New(pairs, more) == {i \in DOMAIN more : Found(pairs, more[i].f) = {}}
Overwritten(pairs, more) ==
  [i \in DOMAIN pairs |->
     IF Found(more, pairs[i].f) = {} THEN pairs[i] ELSE more[FirstIn(Found(more, pairs[i].f))]]
Merged(pairs, more) == Overwritten(pairs, more) \o Chosen(more, New(pairs, more))

Content(x) == ContentOf(IF x = into THEN Merged(map[x].pairs, todo) ELSE map[x].pairs)

Contents == [x \in Vars |-> Content(x)]

Abstract == INSTANCE KeyedMap WITH content <- Contents

(* The generated map is a map from keys to values that remembers the order *)
(* of the keys, and an assigned map is a copy (_realloc of a _copy).       *)
ImplementsKeyedMap == Abstract!Spec

(* More than that, each operation does what the operation of its name      *)
(* promises: _set updates or appends, _remove closes the gap, _merge is    *)
(* one update however many iterations its loop takes, and neither _reserve *)
(* nor _shrink nor a step of that loop changes what the program sees.      *)
Agree ==
  status' = "running" =>
    /\ \A x \in Vars :
         /\ \A k \in Keys :
              /\ Remove(x, k) => Abstract!Remove(x, k)
              /\ \A v \in Values : Set(x, k, v) => Abstract!Set(x, k, v)
         /\ \A y \in Vars : /\ MergeBegin(x, y) => Abstract!Merge(x, y)
                            /\ Assign(x, y) => Abstract!Assign(x, y)
         /\ Clear(x) => Abstract!Clear(x)
         /\ Shrink(x) => UNCHANGED Contents
         /\ \A n \in 0..MaxLen : Reserve(x, n) => UNCHANGED Contents
    /\ MergeStep \/ MergeEnd => UNCHANGED Contents

OperationsAgree == [][Agree]_vars
=============================================================================
