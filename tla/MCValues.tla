------------------------------ MODULE MCValues ------------------------------
(***************************************************************************)
(* The hand-written functions on strings with the strings of a small       *)
(* alphabet up to a few characters, and the functions generated for types  *)
(* with a few programs.  Neither reads the state of the other: a function  *)
(* is called when the program of Values has been left as it began.         *)
(***************************************************************************)
EXTENDS StringCalls, Values

UpTo(chars, n) == UNION {[1..k -> chars] : k \in 0..n}
MCTexts == UpTo({97, 98}, 4)
MCNeedles == UpTo({97, 98}, 2)
MCReplacements == {<<>>, <<99>>, <<97>>, <<99, 97, 99>>}
MCCounts == -1..3
MCIndices == -6..6
MCBehind == [1..4 -> {96, 98}]
MCPieces == UpTo({97, SP, LF, CR}, 4) \union UpTo({110, LF, Quote, Backslash}, 3)
MCNames == UNION {[1..k -> UpTo({97, 98}, 2)] : k \in 0..4}
MCPaths == UpTo({97, Slash}, 6)
MCNumerals == UpTo({48, 49, 51, 57, Minus, SP, NUL, 97}, 3)
              \union {<<SP, Minus>> \o t : t \in UpTo({48, 49, 51, 57}, 2)}
MCRadixes == {1, 2, 10, 37}
MCUrls == UpTo({"x", ":"}, 2) \union {<<"x", ":">> \o t : t \in UpTo({"x", ":", "/", "?", "#", "@"}, 5)}
          \union {<<"x", ":", "/", "/", "x">> \o t : t \in UpTo({"x", ":", "/", "?", "#"}, 5)}

\* A list, a union that may hold one, an object with a union and any, and functions
Form(form, parts) == [form |-> form, parts |-> parts]
MCTypeForms ==
  [int |-> Form("int", <<>>), str |-> Form("str", <<>>), any |-> Form("any", <<>>),
   fn |-> Form("fn", <<>>), ref |-> Form("ref", <<>>),
   Node |-> Form("obj", <<"str", "optNode">>), optNode |-> Form("opt", <<"Node">>),
   IntOrNode |-> Form("union", <<"int", "Node">>), Box |-> Form("obj", <<"IntOrNode", "any">>),
   optFn |-> Form("opt", <<"fn">>), Hook |-> Form("obj", <<"optFn">>),
   optAny |-> Form("opt", <<"any">>)]
MCPrograms ==
  {<<"Node", "optNode">>, <<"IntOrNode", "Node">>, <<"Box">>, <<"Node", "ref">>, <<"str", "ref">>,
   <<"any", "ref", "str">>, <<"fn", "Hook">>, <<"optAny", "any">>}
MCContents == {"a"}

MCInit == Init /\ ValuesInit
MCNext ==
  \/ declared = <<>> /\ assigned = 0 /\ Next /\ UNCHANGED valvars
  \/ last = None /\ ValuesNext /\ UNCHANGED vars
MCSpec == MCInit /\ [][MCNext]_<<vars, valvars>>
=============================================================================
