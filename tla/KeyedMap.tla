------------------------------ MODULE KeyedMap ------------------------------
(***************************************************************************)
(* What the language promises of its maps: a map holds one value for each  *)
(* of its keys and remembers the order in which the keys were first set;   *)
(* an assignment copies, so that no two variables share a map.             *)
(***************************************************************************)
EXTENDS Places, Functions

CONSTANTS Vars, Keys, Values

VARIABLE content   \* of each variable: its keys in order, the value of each

Empty == [keys |-> <<>>, value |-> <<>>]

TypeOK ==
  \A x \in Vars :
    /\ content[x].keys \in Seq(Keys)
    /\ content[x].value \in [Range(content[x].keys) -> Values]

Bind(value, k, v) == [q \in DOMAIN value \cup {k} |-> IF q = k THEN v ELSE value[q]]

(* Keys that are new go to the end, in their own order. *)
Extended(keys, more) ==
  keys \o Chosen(more, {i \in DOMAIN more : more[i] \notin Range(keys)})

Init == content = [x \in Vars |-> Empty]

Set(x, k, v) ==
  content' = [content EXCEPT ![x] =
    [keys  |-> IF k \in Range(@.keys) THEN @.keys ELSE Append(@.keys, k),
     value |-> Bind(@.value, k, v)]]

Remove(x, k) ==
  /\ k \in Range(content[x].keys)
  /\ content' = [content EXCEPT ![x] =
       [keys  |-> Chosen(@.keys, {i \in DOMAIN @.keys : @.keys[i] # k}),
        value |-> Restrict(@.value, DOMAIN @.value \ {k})]]

(* Where both maps have a key the value of the other map wins. *)
Merge(x, y) ==
  LET m == content[x]
      n == content[y] IN
  content' = [content EXCEPT ![x] =
    [keys  |-> Extended(m.keys, n.keys),
     value |-> [k \in DOMAIN m.value \cup DOMAIN n.value |->
                  IF k \in DOMAIN n.value THEN n.value[k] ELSE m.value[k]]]]

Clear(x) == content' = [content EXCEPT ![x] = Empty]

Assign(x, y) == content' = [content EXCEPT ![x] = content[y]]

(* A literal with up to two distinct keys. *)
Literal(x, ks, vs) ==
  content' = [content EXCEPT ![x] =
    [keys |-> ks, value |-> [k \in Range(ks) |-> vs[CHOOSE i \in DOMAIN ks : ks[i] = k]]]]

Next ==
  \E x \in Vars :
    \/ Clear(x) \/ Literal(x, <<>>, <<>>)
    \/ \E k \in Keys : Remove(x, k) \/ \E v \in Values : Set(x, k, v)
    \/ \E y \in Vars : Merge(x, y) \/ Assign(x, y)
    \/ \E k \in Keys, v \in Values : Literal(x, <<k>>, <<v>>)
    \/ \E k, q \in Keys, v, u \in Values : k # q /\ Literal(x, <<k, q>>, <<v, u>>)

Spec == Init /\ [][Next]_content
=============================================================================
