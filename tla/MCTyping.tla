------------------------------ MODULE MCTyping ------------------------------
(***************************************************************************)
(* The table of types, the narrowing of names, the reading of expressions  *)
(* and the scopes.  None reads the state of another, so that each is       *)
(* walked while the other three have not begun.                            *)
(*                                                                         *)
(* The table: one built-in type beside an object and an enumeration of the *)
(* same name and an alias.  Narrowing: a union of three members, an        *)
(* optional and a captured optional, and conditions of up to three tests.  *)
(* Expressions: up to three operators behind operands with and without a   *)
(* prefix, a string literal and parentheses.  Scopes: three variables and  *)
(* functions of three names, in up to four blocks inside one another.      *)
(***************************************************************************)
EXTENDS Narrowing, Types, Precedence, Scopes

MCDeclarable == <<[kind |-> "obj", name |-> "A", path |-> <<"main">>],
                 [kind |-> "enum", name |-> "A", path |-> <<"main", "f">>],
                 [kind |-> "alias", name |-> "T", path |-> <<"main">>]>>

MCFnForms == {<<"fn_s", "a">>, <<"fn_s", "b">>, <<"fn_a", "a">>}

MCNames == {"u", "o", "c"}
MCCaptured == {"c"}
MCDeclared == "u" :> Union(<<"int", "str", "bool">>) @@ "o" :> Opt("int")
                @@ "c" :> Opt("int")

Is(x, t, v) == [op |-> "is", name |-> x, tag |-> t, set |-> v]
IsNil(x, v) == [op |-> "isNil", name |-> x, tag |-> "nil", set |-> v]
NotNil(x, v) == [op |-> "notNil", name |-> x, tag |-> "nil", set |-> v]
Other == [op |-> "other"]

UTests == {Is("u", "int", "none"), Is("u", "str", "none"), Is("u", "str", "bool")}
OTests == {IsNil("o", "none"), NotNil("o", "none"), NotNil("o", "nil")}
CTests == {IsNil("c", "none")}
MCTests == UTests \union OTests \union CTests

Join(A, B) == {[op |-> op, left |-> a, right |-> b] :
                 op \in {"and", "or"}, a \in A, b \in B}

MCPairs == Join(MCTests, MCTests \union {Other}) \union Join({Other}, MCTests)

\* Three tests of one name.
MCTriples ==
  Join(Join(UTests, {Is("u", "str", "none")}), {Is("u", "str", "none")}) \union
  Join({IsNil("o", "none")}, Join(OTests, {NotNil("o", "none")}))

MCConditions == MCTests \union MCPairs \union MCTriples

MCPlain == Node("access", "a", <<>>)
MCLiteral == Node("str", "s", <<>>)
MCGroup == [Node("binary", "*", <<MCPlain, MCLiteral>>) EXCEPT !.parenthesized = TRUE]
MCOperands == {MCPlain, MCLiteral, MCGroup, Prefix("-", MCPlain),
               Prefix("++", MCPlain), Prefix("ref", MCPlain)}
MCInfix == {"*", "+", "=", "?"}

MCIdents == {"x", "f"}
F(n, group) == [name |-> n, group |-> group]
MCHoists == {<<>>, <<F("f", 1)>>, <<F("f", 1), F("g", 1)>>, <<F("f", 1), F("g", 2)>>}

NarrowingRests == ifs = 0 /\ changes = 0
TypesRest == declared = 0 /\ asked = Nothing
ParserRests == tree = Unread
ScopesRest == decls = 0 /\ Depth = 1

TypingInit == Init /\ TypesInit /\ ParseInit /\ ScopesInit

TypingNext ==
  \/ TypesRest /\ ParserRests /\ ScopesRest /\ Next /\ UNCHANGED <<tvars, pvars, scvars>>
  \/ NarrowingRests /\ ParserRests /\ ScopesRest /\ TypesNext
     /\ UNCHANGED <<vars, pvars, scvars>>
  \/ NarrowingRests /\ TypesRest /\ ScopesRest /\ ParseNext
     /\ UNCHANGED <<vars, tvars, scvars>>
  \/ NarrowingRests /\ TypesRest /\ ParserRests /\ ScopesNext
     /\ UNCHANGED <<vars, tvars, pvars>>

TypingSpec == TypingInit /\ [][TypingNext]_<<vars, tvars, pvars, scvars>>
=============================================================================
