------------------------------- MODULE Types --------------------------------
(***************************************************************************)
(* The compiler's table of types (TypeMap) and what it asks of types       *)
(* (Type).  A type is made once: to create an array, optional, reference   *)
(* or function type the table is searched for one that matches strictly,   *)
(* to create a map or union for one of the same code name, and only when   *)
(* there is none a type is added, with the reference type its methods      *)
(* need.  The types of the methods that a definition adds beside are left  *)
(* out, and so are methods and namespaces, which programs do not write.    *)
(*                                                                         *)
(* Names are sequences of their parts.  A name the compiler makes up has a *)
(* code name that begins with "@"; the code name of a declared type is its *)
(* path and an index.                                                      *)
(***************************************************************************)
EXTENDS Naturals, Sequences, FiniteSets

CONSTANTS
  Declarable,    \* the types a program declares, in order: [kind, name, path]
  FnForms,       \* bound: the kinds of function, with the parameter's name
  PartNames,     \* bound: the built-in types types are made of
  MaxDepth,      \* bound: how deep types are in one another
  MaxCreated     \* bound: how many times a type is asked for

VARIABLES items, declared, asked

tvars == <<items, declared, asked>>

-----------------------------------------------------------------------------
(* The built-in types, and the numbers among them.                         *)

IntNumbers == {"i8", "i16", "i32", "int", "i64", "u8", "u16", "u32", "u64"}
FloatNumbers == {"f32", "f64", "float"}
Numbers == IntNumbers \union FloatNumbers

Numberless == {"bool", "byte", "char", "str", "void"}

Basic(n) == [kind |-> "basic", head |-> n, name |-> <<n>>, code |-> <<"@", n>>,
             builtin |-> TRUE, parts |-> <<>>, label |-> ""]

BuiltinItems ==
  <<Basic("any"), Basic("bool"), Basic("byte"), Basic("char"), Basic("f32"),
    Basic("f64"), Basic("float"), Basic("i8"), Basic("i16"), Basic("i32"),
    Basic("i64"), Basic("int"), Basic("u8"), Basic("u16"), Basic("u32"),
    Basic("u64"), Basic("str"), Basic("void")>>

\* The number types of which every value is taken where `lhs` is expected.
Takes ==
  LET i8 == {"i8"}
      u8 == {"u8"}
      i16 == {"i16", "u8"} \union i8
      u16 == {"u16"} \union u8
      i32 == {"i32", "int", "u16"} \union i16
      u32 == {"u32"} \union u16
      i64 == {"i64", "u32"} \union i32
      u64 == {"u64"} \union u32
      f64 == {"f32", "f64", "float"} \union i64
  IN [n \in Numbers |->
        CASE n = "i8" -> i8 [] n = "u8" -> u8 [] n = "i16" -> i16
          [] n = "u16" -> u16 [] n \in {"i32", "int"} -> i32 [] n = "u32" -> u32
          [] n = "i64" -> i64 [] n = "u64" -> u64
          [] n = "f32" -> {"f32"} \union i32
          [] n \in {"f64", "float"} -> f64]

numberTypeMatch(lhs, rhs) == lhs \in Numbers /\ rhs \in Takes[lhs]

\* The type of an operation on two numbers: the left one where it is listed as
\* the larger one of the pair, the right one otherwise.
LargestList ==
  LET below == [n \in Numbers |->
        CASE n \in {"f64", "float"} -> {"u32", "u16", "u8", "i64", "i32", "int",
                                         "i16", "i8", "f32", "f64", "float"}
          [] n = "f32" -> {"f32", "u16", "u8", "i32", "int", "i16", "i8"}
          [] n = "i64" -> {"u32", "u16", "u8", "i64", "i32", "int", "i16", "i8"}
          [] n = "u64" -> {"u64", "u32", "u16", "u8"}
          [] n \in {"i32", "int"} -> {"u16", "u8", "i32", "int", "i16", "i8"}
          [] n = "u32" -> {"u32", "u16", "u8"}
          [] n = "i16" -> {"u8", "i16", "i8"}
          [] n = "u16" -> {"u16", "u8"}
          [] n = "i8" -> {"i8"}
          [] n = "u8" -> {"u8"}]
  IN {<<a, b>> \in Numbers \X Numbers : b \in below[a]}

largest(a, b) == IF <<a, b>> \in LargestList THEN a ELSE b

-----------------------------------------------------------------------------
(* What the compiler asks of the types of a table ts.                      *)

\* Type::actual: a type behind an alias.  An alias is never of an alias.
actual(ts, i) == IF ts[i].kind = "alias" THEN ts[i].parts[1] ELSE i

RECURSIVE real(_, _)
real(ts, i) == IF ts[i].kind \in {"alias", "ref"} THEN real(ts, ts[i].parts[1])
               ELSE i

Compound == {"arr", "fn", "map", "opt", "ref", "union"}

\* Type::matchStrict: compound types of one kind whose parts match, in any
\* order for a union (Type::hasSubType); all others by their plain name.  With
\* `exact` functions whose parameters have other names do not match.
RECURSIVE matchStrict(_, _, _, _)

matchStrict_AnyAsync(ts, i, j, exact) ==
  LET a == ts[i]
      b == ts[j]
  IN CASE a.kind = "alias" -> matchStrict(ts, a.parts[1], j, exact)
       [] a.kind # "alias" /\ b.kind = "alias" ->
            matchStrict(ts, i, actual(ts, j), exact)
       [] {a.kind, b.kind} \intersect Compound = {} -> a.name = b.name
       [] OTHER ->
            /\ a.kind = b.kind
            /\ Len(a.parts) = Len(b.parts)
            /\ exact => a.label = b.label
            /\ \A k \in DOMAIN a.parts :
                 IF a.kind = "union"
                 THEN \E l \in DOMAIN b.parts :
                        matchStrict(ts, b.parts[l], a.parts[k], TRUE)
                 ELSE matchStrict(ts, a.parts[k], b.parts[k], exact)

matchStrict(ts, i, j, exact) ==
  LET a == ts[i]
      b == ts[j]
  IN CASE a.kind = "alias" -> matchStrict(ts, a.parts[1], j, exact)
       [] a.kind # "alias" /\ b.kind = "alias" ->
            matchStrict(ts, i, actual(ts, j), exact)
       [] {a.kind, b.kind} \intersect Compound = {} -> a.name = b.name
       [] OTHER ->
            /\ a.kind = b.kind
            /\ a.head = b.head
            /\ Len(a.parts) = Len(b.parts)
            /\ exact => a.label = b.label
            /\ \A k \in DOMAIN a.parts :
                 IF a.kind = "union"
                 THEN \E l \in DOMAIN b.parts :
                        matchStrict(ts, b.parts[l], a.parts[k], TRUE)
                 ELSE matchStrict(ts, a.parts[k], b.parts[k], exact)

\* Type::hasSubType.
RECURSIVE hasSubType(_, _, _)
hasSubType(ts, i, j) ==
  CASE ts[i].kind \in {"alias", "ref"} -> hasSubType(ts, ts[i].parts[1], j)
    [] ts[i].kind = "union" ->
         \E l \in DOMAIN ts[i].parts : matchStrict(ts, ts[i].parts[l], j, TRUE)
    [] OTHER -> FALSE

\* Where only the right type is an alias or a reference, matchNice goes on
\* with the two types exchanged.
Exchanged(inner, i) == <<inner, i>>

\* Type::matchNice: what is taken where a value of type i is expected.
RECURSIVE matchNice(_, _, _)
matchNice(ts, i, j) ==
  LET a == ts[i]
      b == ts[j]
      is(kind) == a.kind = kind \/ b.kind = kind
      both(kind) == a.kind = kind /\ b.kind = kind
      parts == /\ Len(a.parts) = Len(b.parts)
               /\ \A k \in DOMAIN a.parts : matchNice(ts, a.parts[k], b.parts[k])
      through(kind) ==
        IF both(kind) THEN matchNice(ts, a.parts[1], b.parts[1])
        ELSE IF a.kind = kind THEN matchNice(ts, a.parts[1], j)
        ELSE LET p == Exchanged(b.parts[1], i) IN matchNice(ts, p[1], p[2])
  IN CASE a.head = "any" -> TRUE
       [] a.head # "any" /\ is("alias") -> through("alias")
       [] a.head # "any" /\ ~is("alias") /\ is("ref") -> through("ref")
       [] OTHER ->
            CASE is("arr") -> both("arr") /\ parts
              [] ~is("arr") /\ is("enum") ->
                   IF both("enum") THEN a.name = b.name
                   ELSE "int" \in {a.head, b.head}
              [] ~is("arr") /\ ~is("enum") /\ is("map") -> both("map") /\ parts
              [] OTHER ->
                   CASE a.kind = "fn" ->
                          /\ b.kind = "fn" /\ a.head = b.head /\ parts
                          /\ a.label # "" => a.label = b.label
                     [] a.kind = "obj" -> b.kind = "obj" /\ a.name = b.name
                     [] a.kind = "opt" ->
                          matchNice(ts, a.parts[1],
                                    IF b.kind = "opt" THEN b.parts[1] ELSE j)
                     [] a.kind = "union" ->
                          IF b.kind = "union"
                          THEN /\ Len(a.parts) = Len(b.parts)
                               /\ \A k \in DOMAIN a.parts :
                                    hasSubType(ts, j, a.parts[k])
                          ELSE hasSubType(ts, i, j)
                     [] OTHER ->
                          \/ a.head = b.head /\ a.head \in Numberless
                          \/ a.head = "byte" /\ b.head \in IntNumbers
                          \/ b.head = "byte" /\ a.head \in IntNumbers
                          \/ numberTypeMatch(a.head, b.head)

\* Type::canBeCast, `as`: of a number to one that takes it, of a function to
\* one it matches, out of an any, an optional, a reference, a union.
canBeCast(ts, i, j) ==
  LET s == actual(ts, i)
      t == actual(ts, j)
      a == ts[s]
      b == ts[t]
  IN \/ a.head = "any"
     \/ a.head = "bool" /\ b.head \in Numbers
     \/ a.head = "byte" /\ b.head \in Numbers \union {"char"}
     \/ a.head = "char" /\ b.head \in Numbers \union {"byte"}
     \/ a.kind = "enum" /\ b.head = "int"
     \/ a.kind = "fn" /\ b.kind = "fn" /\ matchStrict(ts, t, s, FALSE)
     \/ a.head \in Numbers /\ numberTypeMatch(b.head, a.head)
     \/ a.kind = "opt" /\ matchStrict(ts, actual(ts, a.parts[1]), t, TRUE)
     \/ a.kind = "ref" /\ \/ matchStrict(ts, actual(ts, a.parts[1]), t, TRUE)
                          \/ b.head = "int"
     \/ a.kind = "union" /\ hasSubType(ts, s, t)

-----------------------------------------------------------------------------
(* The table.  Every operation gives the table after it and the type it    *)
(* returns.                                                                *)

Made(ts, i) == [types |-> ts, got |-> i]

\* The first of the types found, or the new one behind the others.
FirstOrNew(ts, new, found) ==
  IF found = {} THEN Made(Append(ts, new), Len(ts) + 1)
  ELSE Made(ts, CHOOSE i \in found : \A k \in found : i <= k)

actualName(t) == IF Head(t.code) = "@" THEN t.name ELSE t.code

\* An array, optional or reference type of a type, behind its alias.
WrappingOf(ts, kind, i) ==
  LET e == actual(ts, i)
  IN [kind |-> kind, head |-> kind, name |-> <<kind>> \o actualName(ts[e]),
      code |-> <<"@", kind>> \o actualName(ts[e]), builtin |-> FALSE,
      parts |-> <<e>>, label |-> ""]

FoundWrapping(ts, new) ==
  FirstOrNew(ts, new, {i \in DOMAIN ts :
    /\ ts[i].kind = new.kind
    /\ ts[ts[i].parts[1]].builtin = ts[new.parts[1]].builtin
    /\ matchStrict(Append(ts, new), i, Len(ts) + 1, TRUE)})

createRef(ts, i) == FoundWrapping(ts, WrappingOf(ts, "ref", i))

\* A type that was added gets the reference type its methods take.
WithRefs(ts, made, others) ==
  IF Len(made.types) = Len(ts) THEN made
  ELSE LET own == createRef(made.types, made.got).types
       IN Made(IF others = {} THEN own
               ELSE createRef(own, CHOOSE e \in others : TRUE).types, made.got)

createArr(ts, i) ==
  WithRefs(ts, FoundWrapping(ts, WrappingOf(ts, "arr", i)), {actual(ts, i)})

createOpt(ts, i) == WithRefs(ts, FoundWrapping(ts, WrappingOf(ts, "opt", i)), {})

RECURSIVE Joint(_, _)
Joint(names, between) ==
  IF Len(names) = 1 THEN names[1]
  ELSE names[1] \o <<between>> \o Joint(Tail(names), between)

MapOf(ts, k, v) ==
  LET ps == <<actual(ts, k), actual(ts, v)>>
  IN [kind |-> "map", head |-> "map",
      name |-> <<"map">> \o Joint([n \in 1..2 |-> actualName(ts[ps[n]])], "MS"),
      code |-> <<"@", "map">> \o Joint([n \in 1..2 |-> ts[ps[n]].code], "MS"),
      builtin |-> FALSE, parts |-> ps, label |-> ""]

UnionOf(ts, is) ==
  LET ps == [n \in DOMAIN is |-> actual(ts, is[n])]
  IN [kind |-> "union", head |-> "union",
      name |-> <<"union">> \o Joint([n \in DOMAIN ps |-> actualName(ts[ps[n]])], "US"),
      code |-> <<"@", "union">> \o Joint([n \in DOMAIN ps |-> ts[ps[n]].code], "US"),
      builtin |-> FALSE, parts |-> ps, label |-> ""]

\* createMap and createUnion look for the code name.
FoundByCode(ts, new) ==
  WithRefs(ts, FirstOrNew(ts, new, {i \in DOMAIN ts : ts[i].code = new.code}), {})

createMap(ts, k, v) == FoundByCode(ts, MapOf(ts, k, v))
createUnion(ts, is) == FoundByCode(ts, UnionOf(ts, is))

\* A function of one required parameter.
FnOf(ts, head, label, p, r) ==
  LET q == ts[actual(ts, p)]
  IN [kind |-> "fn", head |-> head,
      name |-> <<head, "FP3">> \o q.name \o <<"FR">> \o ts[r].name \o <<"FE">>,
      code |-> <<"@", head, "FP3">> \o q.code \o <<"FR">> \o ts[r].code \o <<"FE">>,
      builtin |-> FALSE, parts |-> <<p, r>>, label |-> label]

createFn(ts, head, label, p, r) ==
  LET new == FnOf(ts, head, label, p, r)
  IN WithRefs(ts, FirstOrNew(ts, new, {i \in DOMAIN ts :
       /\ ~ts[i].builtin
       /\ ts[i].kind = "fn"
       /\ matchStrict(Append(ts, new), i, Len(ts) + 1, TRUE)}), {})

\* TypeMap::name: the path, the name and the first index that is free.
CodeName(ts, path, n) ==
  LET named(k) == path \o <<n, k>>
      free == {k \in {"0", "1", "2", "3"} :
                 \A i \in DOMAIN ts : ts[i].code # named(k)}
  IN named(CASE "0" \in free -> "0" [] "0" \notin free /\ "1" \in free -> "1"
             [] OTHER -> "2")

DeclaredOf(ts, d) ==
  [kind |-> d.kind, head |-> d.name, name |-> <<d.name>>,
   code |-> CodeName(ts, d.path, d.name), builtin |-> FALSE, parts |-> <<>>,
   label |-> ""]

\* createObj and createEnum add a type whatever the table has.
createDeclared(ts, d) ==
  WithRefs(ts, Made(Append(ts, DeclaredOf(ts, d)), Len(ts) + 1), {})

\* createAlias: an alias of an alias is one of the type behind it.
createAlias(ts, d, i) ==
  Made(Append(ts, [DeclaredOf(ts, d) EXCEPT !.parts = <<actual(ts, i)>>]),
       Len(ts) + 1)

-----------------------------------------------------------------------------
(* What a type denotes, apart from its names: a declared type is the item  *)
(* that declared it, a union is the set of its members.                    *)

RECURSIVE Denotes(_, _)
Denotes(ts, i) ==
  LET t == ts[i]
  IN CASE t.kind = "alias" -> Denotes(ts, t.parts[1])
       [] t.kind \in {"obj", "enum"} -> <<"declared", t.code>>
       [] t.kind = "basic" -> <<"basic", t.head>>
       [] t.kind = "union" ->
            <<"union", {Denotes(ts, t.parts[k]) : k \in DOMAIN t.parts}>>
       [] OTHER -> <<t.head, [k \in DOMAIN t.parts |-> Denotes(ts, t.parts[k])]>>

RECURSIVE DepthOf(_, _)
DepthOf(ts, i) ==
  LET t == ts[i]
  IN IF t.parts = <<>> THEN 0
     ELSE 1 + CHOOSE d \in 0..MaxDepth + 1 :
                /\ \E k \in DOMAIN t.parts : DepthOf(ts, t.parts[k]) = d
                /\ \A k \in DOMAIN t.parts : DepthOf(ts, t.parts[k]) <= d

-----------------------------------------------------------------------------
Nothing == [head |-> "none", parts |-> <<>>, got |-> 0, count |-> 0]

TypesInit ==
  /\ items = BuiltinItems
  /\ declared = 0
  /\ asked = Nothing

Usable == {i \in DOMAIN items :
             /\ items[i].kind = "basic" => items[i].head \in PartNames
             /\ items[i].kind # "ref"
             /\ DepthOf(items, i) < MaxDepth}

\* A type is asked for: the table after it, and what it was asked for.
Asked(made, head, parts) ==
  /\ asked.count < MaxCreated
  /\ items' = made.types
  /\ asked' = [head |-> head, parts |-> parts, got |-> made.got,
               count |-> asked.count + 1]
  /\ UNCHANGED declared

\* A declaration: of an object or an enumeration, or of a type under a name.
Declare ==
  /\ declared < Len(Declarable)
  /\ declared' = declared + 1
  /\ LET d == Declarable[declared + 1]
     IN \/ /\ d.kind # "alias"
           /\ items' = createDeclared(items, d).types
        \/ \E i \in Usable :
             /\ d.kind = "alias"
             /\ items' = createAlias(items, d, i).types
  /\ UNCHANGED asked

AskArr(i) == Asked(createArr(items, i), "arr", <<i>>)
AskOpt(i) == Asked(createOpt(items, i), "opt", <<i>>)
AskRef(i) == Asked(createRef(items, i), "ref", <<i>>)
AskMap(k, v) == Asked(createMap(items, k, v), "map", <<k, v>>)

\* The generated struct of a union has a member per type: the C compiler takes
\* no union that names a type twice.
AskUnion(i, j) ==
  /\ Denotes(items, i) # Denotes(items, j)
  /\ Asked(createUnion(items, <<i, j>>), "union", <<i, j>>)

AskFn(head, label, p, r) ==
  Asked(createFn(items, head, label, p, r), head, <<p, r>>)

TypesNext ==
  \/ Declare
  \/ \E i \in Usable :
       \/ AskArr(i) \/ AskOpt(i) \/ AskRef(i)
       \/ \E j \in Usable :
            \/ AskMap(i, j) \/ AskUnion(i, j)
            \/ \E f \in FnForms : items[j].builtin /\ AskFn(f[1], f[2], i, j)

-----------------------------------------------------------------------------
(* Properties. *)

\* Two declarations of one name, which the table tells apart by code name only.
SameName(i, j) ==
  /\ i # j
  /\ {items[i].kind, items[j].kind} \subseteq {"obj", "enum"}
  /\ items[i].name = items[j].name

RECURSIVE Mentions(_)
Mentions(i) ==
  {i} \union UNION {Mentions(items[i].parts[k]) : k \in DOMAIN items[i].parts}

\* The types that mention a type of which another one has the name.
Shadowed(i) == \E d \in Mentions(i), e \in DOMAIN items : SameName(d, e)

\* The types the last step added: the table only grows, and what holds of two
\* types holds of them from then on.
Newest == {i \in DOMAIN items : i > Len(BuiltinItems) /\ i > Len(items) - 3}

TypesOK ==
  /\ \A i \in DOMAIN items :
       /\ \A k \in DOMAIN items[i].parts : items[i].parts[k] \in 1..i - 1
       /\ items[i].kind = "alias" => items[items[i].parts[1]].kind # "alias"
  /\ asked.got \in 0..Len(items)

\* The type a program gets is the one it asks for, however many types were
\* made before it and in whatever order (createArr, createOpt, createRef,
\* createMap, createUnion and createFn, which return types they find): except
\* that a type made of a declared type may be made of another one of its name.
CreatedAsAsked ==
  asked.got # 0 =>
    LET parts == [k \in DOMAIN asked.parts |-> Denotes(items, asked.parts[k])]
        wanted == IF asked.head = "union"
                  THEN <<"union", {parts[k] : k \in DOMAIN parts}>>
                  ELSE <<asked.head, parts>>
    IN \/ Denotes(items, asked.got) = wanted
       \/ \E k \in DOMAIN asked.parts : Shadowed(asked.parts[k])

\* Two types match strictly when and only when they denote the same, so that
\* the match is an equivalence, and types of one code name, which the generated
\* program declares once, denote the same; but for types of one name.
StrictMeansSame ==
  LET denoted == [i \in DOMAIN items |-> Denotes(items, i)]
      unique == [i \in DOMAIN items |-> ~Shadowed(i)]
  IN \A j \in Newest : unique[j] =>
       \A i \in DOMAIN items : unique[i] =>
         LET same == denoted[i] = denoted[j]
         IN /\ matchStrict(items, i, j, FALSE) <=> same
            /\ matchStrict(items, j, i, FALSE) <=> same
            /\ items[i].code = items[j].code => same

\* The values of a number type are those between -2^neg and 2^pos, or of that
\* magnitude.
RangeOf(n) ==
  CASE n = "i8" -> <<7, 7>> [] n = "i16" -> <<15, 15>>
    [] n \in {"i32", "int"} -> <<31, 31>> [] n = "i64" -> <<63, 63>>
    [] n = "u8" -> <<0, 8>> [] n = "u16" -> <<0, 16>> [] n = "u32" -> <<0, 32>>
    [] n = "u64" -> <<0, 64>> [] n = "f32" -> <<128, 128>>
    [] n \in {"f64", "float"} -> <<1024, 1024>>

Within(a, b) == RangeOf(a)[1] <= RangeOf(b)[1] /\ RangeOf(a)[2] <= RangeOf(b)[2]

TakesInRange(i, j) ==
  LET a == items[real(items, i)].head
      b == items[real(items, j)].head
      exchanged == ({"ref", "alias"} \intersect {items[j].kind}) \ {items[i].kind}
  IN a \in Numbers /\ b \in Numbers =>
       /\ matchNice(items, i, j) /\ exchanged = {} => Within(b, a)
       /\ canBeCast(items, i, j) /\ items[actual(items, i)].kind # "ref" =>
            Within(a, b)

BuiltinWiden ==
  \A a, b \in Numbers :
    /\ numberTypeMatch(a, b) => Within(b, a) /\ largest(a, b) = a
    /\ numberTypeMatch(b, a) => Within(a, largest(a, b))

\* A number is taken where another one is expected, or cast to it, only when
\* its values are in the range of the other one; through aliases and references
\* as well, except where a reference to the number is given and no reference is
\* expected (Type::matchNice, canBeCast).  Where one of the operands of an
\* operation takes the other the operation is of its type (Type::largest).
NumbersWiden ==
  /\ BuiltinWiden
  /\ \A j \in Newest : \A i \in DOMAIN items :
       TakesInRange(i, j) /\ TakesInRange(j, i)

\* The table of types says what types denote: it holds types of types before
\* them, what is asked for is what is returned, types that match strictly denote
\* the same, and no number is taken for one that does not hold its values.
TypesDenote == TypesOK /\ CreatedAsAsked /\ StrictMeansSame /\ NumbersWiden
=============================================================================
