------------------------------ MODULE ArrayList ------------------------------
(***************************************************************************)
(* What the language promises of its arrays (the comments of src/api/arr): *)
(* a variable holds a list of its own; a question leaves the list alone    *)
(* and is answered by Reply; a callback may do with the variable what it   *)
(* likes, filter and forEach go on over the list as it was when they were  *)
(* called, and sort moves elements in place.                               *)
(*                                                                         *)
(* Stop names the calls after which nothing is promised.                   *)
(***************************************************************************)
EXTENDS Integers, Sequences, SequencesExt

CONSTANTS
  Keys, Lists, Indexes,   \* elements, literals and indexes of the program
  Comparators, Predicates

VARIABLES list, busy

avars == <<list, busy>>

Free    == [op |-> "free"]
Error   == <<>>
Calling == busy.op \in {"sort", "filter", "forEach"}

Place(l, i)  == IF i < 0 THEN Len(l) + i + 1 ELSE i + 1
Inside(l, i) == Place(l, i) \in DOMAIN l
Clamp(l, i)  ==
  LET from == IF i < 0 THEN Len(l) + i ELSE i IN
  IF from < 0 THEN 0 ELSE IF from > Len(l) THEN Len(l) ELSE from

Reply(c, l) ==
  CASE c.op = "at"       -> IF Inside(l, c.i) THEN <<l[Place(l, c.i)]>> ELSE Error
    [] c.op = "first"    -> IF l = <<>> THEN Error ELSE <<Head(l)>>
    [] c.op = "last"     -> IF l = <<>> THEN Error ELSE <<Last(l)>>
    [] c.op = "len"      -> <<Len(l)>>
    [] c.op = "empty"    -> <<Len(l) = 0>>
    [] c.op \in {"str", "copy"} -> <<l>>
    [] c.op = "reverse"  -> <<Reverse(l)>>
    [] c.op = "contains" -> <<c.key \in ToSet(l)>>
    [] c.op = "concat"   -> <<l \o c.other>>
    [] c.op = "eq"       -> <<l = c.other>>
    [] c.op = "ne"       -> <<l # c.other>>
    [] c.op = "slice"    ->
         <<SubSeq(l, Clamp(l, c.from) + 1, IF c.toEnd THEN Len(l) ELSE Clamp(l, c.to))>>

Init == list = <<>> /\ busy = Free

Assign(ks) == busy = Free /\ list' = ks /\ UNCHANGED busy
Clear      == Assign(<<>>)
Extend(ks) == busy = Free /\ list' = list \o ks /\ UNCHANGED busy

Pop ==
  /\ busy = Free /\ list # <<>>
  /\ list' = Front(list)
  /\ UNCHANGED busy

Delete(i) ==
  /\ busy = Free
  /\ IF Inside(list, i)
     THEN list' = RemoveAt(list, Place(list, i))
     ELSE list' = list
  /\ UNCHANGED busy

(* A call that calls back, and the list it goes over. *)
BeginSort(cmp)   == busy = Free /\ busy' = [op |-> "sort", cmp |-> cmp, short |-> FALSE]
BeginFilter(p)   == busy = Free /\ busy' = [op |-> "filter", keep |-> p, over |-> list]
BeginForEach     == busy = Free /\ busy' = [op |-> "forEach", over |-> list]

Begin ==
  /\ BeginForEach \/ (\E cmp \in Comparators : BeginSort(cmp)) \/ (\E p \in Predicates : BeginFilter(p))
  /\ UNCHANGED list

Shorten ==
  /\ list' \in {<<>>, IF list = <<>> THEN <<>> ELSE Front(list)}
  /\ busy' = IF busy.op = "sort" THEN [busy EXCEPT !.short = TRUE] ELSE busy

Lengthen == (\E k \in Keys : list' = Append(list, k)) /\ UNCHANGED busy

InCallback == Calling /\ (Shorten \/ Lengthen)

SwapNeighbours ==
  /\ busy.op = "sort"
  /\ \E i \in 2..Len(list) :
       list' = [list EXCEPT ![i] = list[i - 1], ![i - 1] = list[i]]
  /\ UNCHANGED busy

Return == Calling /\ busy' = Free /\ UNCHANGED list   \* or an error of the callback

(* The end of all promises: popping what is not there, merging nothing     *)
(* into nothing, shortening the array that is being sorted.                *)
Stop ==
  /\ (list = <<>> /\ busy = Free) \/ (busy.op = "sort" /\ busy.short)
  /\ busy' = [op |-> "stopped"]
  /\ UNCHANGED list

Next ==
  \/ \E ks \in Lists : Assign(ks) \/ Extend(ks)
  \/ \E i \in Indexes : Delete(i)
  \/ Clear \/ Pop \/ Begin \/ InCallback \/ SwapNeighbours \/ Return \/ Stop

Spec == Init /\ [][Next]_avars
=============================================================================
