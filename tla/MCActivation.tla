---- MODULE MCActivation ----
(* Programs for Activation: one for each runtime function, and one for each  *)
(* type of a small zoo, which mentions every function generated for it.      *)
EXTENDS ActivationInv, TypeEntities, RuntimeApi

IntT == Scalar("int")
String == Scalar("str")
Point == Obj("Point")
Shape == Obj("Shape")

MCUserObjects == <<"Point", "Shape">>
MCUserTypes ==
  <<Arr(IntT), Arr(Scalar("u8")), Opt(Scalar("f32")), Arr(Arr(Point)), Map(String, Arr(Shape)), Opt(Point), Union(<<IntT, String, Point>>),
    Func(<<IntT, String>>, Shape), Func(<<>>, Scalar("void")), AnyOf(IntT), AnyOf(Shape), Opt(Opt(String)), Ref(Arr(IntT))>>

\* The fields of the builtin objects (TypeMap.cpp) and of the two objects of the zoo
Repeat(t, n) == [i \in 1..n |-> t]
MCFields(n) ==
  CASE n = "error_Error" -> Repeat(String, 2)
    [] n = "fs_Stats" -> <<Scalar("u64"), Scalar("u32"), Scalar("u64"), Scalar("u64"), Scalar("u32"), Scalar("u32"),
                           Scalar("u64")>> \o Repeat(Scalar("i64"), 11)
    [] n = "request_Header" -> Repeat(String, 2)
    [] n = "request_Request" -> <<>>
    [] n = "request_Response" -> <<Scalar("buffer_Buffer"), IntT, Arr(Obj("request_Header"))>>
    [] n = "url_URL" -> Repeat(String, 9)
    [] n = "Point" -> <<IntT, Scalar("float")>>
    [] n = "Shape" -> <<String, Arr(Point), Opt(String), Union(<<IntT, Point>>), Map(String, Point),
                        Func(<<Point>>, Scalar("bool")), Scalar("any")>>

\* The tables, each computed once.
Built == [throws \in BOOLEAN |-> Catalogue(throws)]
MCEntities == LET entities == Built IN entities
MCRuntime == LET runtime == Api IN runtime
MCHeadersOf == LET headers == SymbolHeaders IN headers

CallOf(n) == [mentions |-> {n}, async |-> FALSE, throws |-> Api[n].throws]
\* What a program that uses every operation of a type mentions: all entities named after it
AllOf(t, throws, async) ==
  LET es == Built[throws] IN
  [mentions |-> {t.name \o s : s \in {"", "P", "_alloc", "_free", "_copy", "_eq", "_ne", "_str", "_realloc", "_at", "_clear",
                  "_concat", "_contains", "_empty", "_filter", "_first", "_forEach", "_join", "_last", "_len", "_merge",
                  "_pop", "_push", "_remove", "_reverse", "_slice", "_sort", "_cap", "_get", "_has", "_keys", "_reserve",
                  "_set", "_shrink", "_values"}} \cap {es[i].name : i \in DOMAIN es},
   async |-> async, throws |-> throws]
Zoo == {MCUserTypes[i] : i \in DOMAIN MCUserTypes} \cup {Point, Shape, Obj("request_Request")}
Mentioning == {CallOf(n) : n \in DOMAIN Api} \cup {AllOf(t, throws, FALSE) : t \in Zoo, throws \in BOOLEAN}
              \cup {AllOf(Shape, TRUE, TRUE), [mentions |-> {}, async |-> TRUE, throws |-> FALSE]}
MCPrograms == LET programs == Mentioning IN programs

\* How far each name reaches, breadth first, and the height of each runtime function: one comes next
\* when those it depends on all have a height
RECURSIVE Search(_, _, _, _)
Search(entity, front, seen, k) ==
  LET next == {d \in UNION {Listed(n, entity) : n \in front} : d \notin seen} IN
  [n \in front |-> k] @@ (IF next = {} THEN <<>> ELSE Search(entity, next, UNION {seen, next}, k + 1))
Distances ==
  LET entityAt == EntityAt
      distances == [throws \in BOOLEAN |->
        [n \in DOMAIN Runtime \cup Builtins \cup DOMAIN entityAt[throws] |-> Search(entityAt[throws], {n}, {n}, 0)]]
  IN distances
MCDistance(throws, n) == Distances[throws][n]

RECURSIVE Climb(_, _)
Climb(left, k) ==
  LET next == {f \in left : \A g \in Listed(f, <<>>) : g \notin left} IN
  IF next = {} THEN <<>> ELSE [f \in next |-> k] @@ Climb({f \in left : f \notin next}, k + 1)
Heights == Climb(DOMAIN Runtime, 0)
MCHeight(f) == Heights[f]
====
