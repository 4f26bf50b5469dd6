------------------------------ MODULE MCArrays ------------------------------
(* Arrays on small sets. *)
EXTENDS ArraysInv, TLC

MCLists == {<<>>} \cup {<<a>> : a \in Keys} \cup {<<2, 1>>, <<1, 1>>, <<3, 2, 1>>, <<2, 3, 1>>, <<2, 2, 1>>}

MCIndexes == {-4, -3, -1, 0, 1, 3}

Pairs == Keys \X Keys

(* By value; every two equal; always greater; each less than one other. *)
MCComparators ==
  {[p \in Pairs |-> p[1] - p[2]], [p \in Pairs |-> 0], [p \in Pairs |-> 1],
   [p \in Pairs |-> IF p[1] = p[2] THEN 0 ELSE IF (p[1] - p[2]) % 3 = 1 THEN 1 ELSE -1]}
==============================================================================
