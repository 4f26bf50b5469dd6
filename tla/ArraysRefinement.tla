-------------------------- MODULE ArraysRefinement ---------------------------
(* The array as an implementation of ArrayList, and what it answers. *)
EXTENDS Arrays

Busy ==
  CASE InSort    -> [op |-> "sort", cmp |-> run.cmp, short |-> run.short]
    [] InFilter  -> [op |-> "filter", keep |-> run.keep, over |-> KeysOf(run.src)]
    [] InForEach -> [op |-> "forEach", over |-> KeysOf(run.src)]
    [] run = Free -> Free
    [] OTHER     -> [op |-> "stopped"]

List == INSTANCE ArrayList WITH list <- KeysOf(self), busy <- Busy

(* Every method of the generated array does to the list of its elements    *)
(* what src/api/arr says of it, whatever a callback does to the variable   *)
(* meanwhile.  A program is ended by its arrays in three ways only: it     *)
(* pops an empty array, it merges nothing into an array with a block but   *)
(* no element, or its comparator shortens the array that _sort is looping  *)
(* over.                                                                   *)
ImplementsArrayList == List!Spec

(* t holds those of the first n elements of s that are in keep, as often as *)
(* s does and in the order of s.                                            *)
Keeps(s, n, t, keep) ==
  \E at \in [DOMAIN t -> 1..n] :
    /\ \A j, k \in DOMAIN t : j < k => at[j] < at[k]
    /\ {at[j] : j \in DOMAIN t} = {i \in 1..n : s[i] \in keep}
    /\ \A j \in DOMAIN t : t[j] = s[at[j]]

(* What the methods answer is what the list says, for every index from     *)
(* beyond the start to beyond the end, and filter and forEach answer for   *)
(* the list as it was when they were called.                               *)
AnswersAgree ==
  /\ run = Free => \A c \in Questions : Answer(c).v = List!Reply(c, KeysOf(self))
  /\ InFilter /\ ~Filtering =>
       Keeps(KeysOf(run.src), run.src.l, KeysOf(run.out), run.keep)
  /\ InForEach /\ ~Visiting => run.seen = KeysOf(run.src)
=============================================================================
