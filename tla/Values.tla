------------------------------- MODULE Values -------------------------------
(***************************************************************************)
(* What a generated program does with the values of strings, objects,      *)
(* optionals, unions, any and functions: the _copy, _eq, _ne, _free,       *)
(* _realloc and _str printed for a type (codegen/type-*.cpp), the choice   *)
(* among them (_gen*Fn of helpers.cpp), and how reads, assignments,        *)
(* comparisons, literals and references use them (codegen/expr-*.cpp).     *)
(*                                                                         *)
(* A C value is a number, a pointer to a block, the code of a function     *)
(* with the block of its context, an any with the type of its block, or a  *)
(* union with its tag.  A block holds the values of the parts of what is   *)
(* in it.  Beside the store, `means` is what the variables mean: trees,    *)
(* for the language has values and no addresses.                           *)
(*                                                                         *)
(* Arrays and maps have modules of their own.                              *)
(***************************************************************************)
EXTENDS Integers, Sequences, FiniteSets, SequencesExt, FiniteSetsExt, TLC

CONSTANTS
  TypeForms,   \* each type: its form, and the types of its fields, members or content
  Programs,    \* the types of the variables of a program; a reference refers to the first one
  Contents,    \* what strings and numbers may be
  MaxAssigned, \* bound on the assignments of a program
  MaxBlocks    \* bound on the blocks that are allocated

VARIABLES
  store,       \* the blocks, and what went wrong with them
  declared,    \* the types of the variables
  frame,       \* their C values
  means,       \* what they mean
  lost,        \* the blocks that no variable holds since a reference was assigned through
  answer,      \* what the last operation was and answered
  assigned     \* how many assignments there were

valvars == <<store, declared, frame, means, lost, answer, assigned>>

FormOf(t) == TypeForms[t].form
PartsOf(t) == TypeForms[t].parts
Inner(t) == PartsOf(t)[1]
MembersOf(t) == ToSet(PartsOf(t))

NULL == [at |-> 0]
Number(n) == [n |-> n]
Boxed(t, b) == [t |-> t, at |-> b]
Closure(f, b) == [f |-> f, at |-> b]
Tagged(t, v) == [t |-> t, v |-> v]

\* What an operation leaves and gives, and an operation that goes on with both
Got(h, v) == [h |-> h, v |-> v]
Then(r, Op(_, _)) == Op(r.h, r.v)

-----------------------------------------------------------------------------
(* The heap. *)

Live(h) == DOMAIN h.blocks
Wrong(h, what) == [h EXCEPT !.wrong = @ \union {what}]
Within(h, v) == h.blocks[v.at]

alloc(h, vs) ==
  LET b == CHOOSE b \in 1..(Cardinality(Live(h)) + 1) : b \notin Live(h)
  IN Got([h EXCEPT !.blocks = (b :> vs) @@ @], [at |-> b])
free(h, b) == IF b \in Live(h) THEN [h EXCEPT !.blocks = [c \in DOMAIN @ \ {b} |-> @[c]]]
              ELSE Wrong(h, "misused")

\* v with its block exchanged for the new one
Moved(v, r) == Then(r, LAMBDA h, w : Got(h, [v EXCEPT !.at = w.at]))

any_alloc(h, t, d) == Moved(Boxed(t, 0), alloc(h, <<d>>))
opt_alloc(h, n) == alloc(h, <<n>>)
str_alloc(h, text) == alloc(h, <<Number(text)>>)

\* A value of the type is in a block, and that block is gone
IsPointer(t, v) == FormOf(t) \notin {"int", "union"} /\ v.at # 0
Dangles(h, t, v) == IsPointer(t, v) /\ v.at \notin Live(h)

\* Op for each of the values, from left to right
Each(h, vs, Op(_, _, _)) ==
  FoldLeft(LAMBDA acc, i : Then(Op(acc.h, i, vs[i]), LAMBDA g, v : Got(g, Append(acc.v, v))),
           Got(h, <<>>), [i \in DOMAIN vs |-> i])
Through(h, vs, Op(_, _, _)) == Each(h, vs, LAMBDA g, i, v : Got(Op(g, i, v), i)).h

RECURSIVE shouldBeFreed(_)
shouldBeFreed(t) == \/ FormOf(t) \notin {"int", "union"}
                    \/ FormOf(t) = "union" /\ \E m \in MembersOf(t) : shouldBeFreed(m)

-----------------------------------------------------------------------------
(* _copy *)

RECURSIVE genCopyFn(_, _, _)

str_copy(h, v) == alloc(h, Within(h, v))
fn_copy(h, v) == IF v.at = 0 THEN Got(h, v) ELSE Moved(v, alloc(h, Within(h, v)))
obj_copy(h, t, v) ==
  Then(Each(h, Within(h, v), LAMBDA g, i, w : genCopyFn(g, PartsOf(t)[i], w)), alloc)
opt_copy(h, t, v) ==
  IF v = NULL THEN Got(h, v) ELSE Then(genCopyFn(h, Inner(t), Within(h, v)[1]), opt_alloc)
union_copy(h, t, v) ==
  IF v.t \notin MembersOf(t) THEN Got(h, v)
  ELSE Then(genCopyFn(h, v.t, v.v), LAMBDA g, w : Got(g, Tagged(v.t, w)))
any_copy(h, v) ==
  IF v.at = 0 THEN Got(h, v)
  ELSE Then(genCopyFn(h, v.t, Within(h, v)[1]), LAMBDA g, w : any_alloc(g, v.t, w))

genCopyFn(h, t, v) ==
  CASE Dangles(h, t, v) -> Got(Wrong(h, "misused"), v)
    [] FormOf(t) = "str" -> str_copy(h, v)
    [] FormOf(t) = "fn" -> fn_copy(h, v)
    [] FormOf(t) = "obj" -> obj_copy(h, t, v)
    [] FormOf(t) = "opt" -> opt_copy(h, t, v)
    [] FormOf(t) = "union" -> union_copy(h, t, v)
    [] FormOf(t) = "any" -> any_copy(h, v)
    [] OTHER -> Got(h, v)

-----------------------------------------------------------------------------
(* _free.  T_realloc(n1, n2) frees n1 and gives n2, whatever the type.     *)

RECURSIVE genFreeFn(_, _, _)

obj_free(h, t, v) ==
  free(Through(h, Within(h, v), LAMBDA g, i, w : genFreeFn(g, PartsOf(t)[i], w)), v.at)
opt_free(h, t, v) == IF v = NULL THEN h ELSE free(genFreeFn(h, Inner(t), Within(h, v)[1]), v.at)
union_free(h, t, v) == IF v.t \in MembersOf(t) THEN genFreeFn(h, v.t, v.v) ELSE h
any_free(h, v) == IF v.at = 0 THEN h ELSE free(genFreeFn(h, v.t, Within(h, v)[1]), v.at)
fn_free(h, v) == IF v.at = 0 THEN h ELSE free(h, v.at)

genFreeFn(h, t, v) ==
  CASE ~shouldBeFreed(t) -> h
    [] Dangles(h, t, v) -> Wrong(h, "misused")
    [] FormOf(t) = "str" -> free(h, v.at)
    [] FormOf(t) = "fn" -> fn_free(h, v)
    [] FormOf(t) = "obj" -> obj_free(h, t, v)
    [] FormOf(t) = "opt" -> opt_free(h, t, v)
    [] FormOf(t) = "union" -> union_free(h, t, v)
    [] FormOf(t) = "any" -> any_free(h, v)

-----------------------------------------------------------------------------
(* _eq, or _ne: they free what they are given, and are given copies of     *)
(* what is inside.  Nothing is looked at behind the first part that        *)
(* decides.                                                                *)

RECURSIVE genEqFn(_, _, _, _, _)

obj_eq(h, t, n1, n2, ne) ==
  LET a == Within(h, n1) b == Within(h, n2)
  IN FoldLeft(LAMBDA acc, i : IF acc.v = ne THEN acc
                              ELSE genEqFn(acc.h, PartsOf(t)[i], a[i], b[i], ne),
              Got(h, ~ne), [i \in DOMAIN a |-> i])

opt_eq(h, t, n1, n2, ne) ==
  IF n1 = NULL \/ n2 = NULL \/ FormOf(Inner(t)) = "fn" THEN Got(h, (n1.at = n2.at) # ne)
  ELSE genEqFn(h, Inner(t), Within(h, n1)[1], Within(h, n2)[1], ne)

union_eq(h, t, n1, n2, ne) ==
  IF n1.t # n2.t \/ n1.t \notin MembersOf(t) THEN Got(h, (n1.t = n2.t) # ne)
  ELSE genEqFn(h, n1.t, n1.v, n2.v, ne)

\* What T_eq or T_ne does with two values that it may consume
Consumed(h, t, n1, n2, ne) ==
  Then(CASE FormOf(t) = "str" -> Got(h, (Within(h, n1) = Within(h, n2)) # ne)
         [] FormOf(t) = "obj" -> obj_eq(h, t, n1, n2, ne)
         [] FormOf(t) = "opt" -> opt_eq(h, t, n1, n2, ne)
         [] FormOf(t) = "union" -> union_eq(h, t, n1, n2, ne),
       LAMBDA g, r : Got(Through(g, <<n1, n2>>, LAMBDA f, i, n : genFreeFn(f, t, n)), r))

genEqFn(h, t, v, w, ne) ==
  CASE FormOf(t) = "int" -> Got(h, (v = w) # ne)
    [] FormOf(t) = "any" -> Got(h, (v.at = w.at) # ne)
    [] OTHER -> Then(Each(h, <<v, w>>, LAMBDA g, i, n : genCopyFn(g, t, n)),
                     LAMBDA g, ns : Consumed(g, t, ns[1], ns[2], ne))

\* What C accepts of it: structs are not compared, so that a function is only inside an
\* optional, where its addresses are, and any only as a part, where that of its block is
RECURSIVE hasEq(_, _)
hasEq(t, seen) ==
  \/ FormOf(t) \in {"int", "str"} \/ t \in seen
  \/ /\ FormOf(t) \in {"obj", "opt", "union"}
     /\ \A p \in MembersOf(t) :
          FormOf(p) = "any" \/ (FormOf(t) = "opt" /\ FormOf(p) = "fn") \/ hasEq(p, seen \union {t})

-----------------------------------------------------------------------------
(* _str: it frees what it is given, and gives copies of what is inside.    *)
(* That of a union whose tag is that of no member returns what it never    *)
(* has set.                                                                *)

RECURSIVE Printed(_, _, _)

genStrFn(h, t, v) == Then(genCopyFn(h, t, v), LAMBDA g, w : Printed(g, t, w))

union_str(h, t, v) == IF v.t \in MembersOf(t) THEN genStrFn(h, v.t, v.v) ELSE Wrong(h, "unset")

Printed(h, t, v) ==
  genFreeFn(CASE FormOf(t) = "obj" ->
                     Through(h, Within(h, v), LAMBDA g, i, w : genStrFn(g, PartsOf(t)[i], w))
              [] FormOf(t) = "opt" /\ v # NULL -> genStrFn(h, Inner(t), Within(h, v)[1])
              [] FormOf(t) = "union" -> union_str(h, t, v)
              [] OTHER -> h,
            t, v)

-----------------------------------------------------------------------------
(* What a value means: a tree.  An optional, a union or an any is what it  *)
(* holds.                                                                  *)

Tree(t, is, parts) == [t |-> t, is |-> is, parts |-> parts]
Nil == Tree("nil", "nil", <<>>)

RECURSIVE MeaningOf(_, _, _)
MeaningOf(h, t, v) ==
  CASE Dangles(h, t, v) -> Tree("gone", "gone", <<>>)
    [] FormOf(t) = "int" -> Tree(t, v.n, <<>>)
    [] FormOf(t) = "fn" -> Tree(t, v.f, <<>>)
    [] FormOf(t) = "str" -> Tree(t, Within(h, v)[1].n, <<>>)
    [] FormOf(t) = "obj" -> LET vs == Within(h, v) IN
         Tree(t, "obj", [i \in DOMAIN vs |-> MeaningOf(h, PartsOf(t)[i], vs[i])])
    [] FormOf(t) = "opt" -> IF v = NULL THEN Nil ELSE MeaningOf(h, Inner(t), Within(h, v)[1])
    [] FormOf(t) = "any" -> IF v.at = 0 THEN Nil ELSE MeaningOf(h, v.t, Within(h, v)[1])
    [] FormOf(t) = "union" -> IF v.t \in MembersOf(t) THEN MeaningOf(h, v.t, v.v) ELSE Nil

RECURSIVE PartAt(_, _), PutAt(_, _, _)
PartAt(tree, way) == IF way = <<>> THEN tree ELSE PartAt(tree.parts[Head(way)], Tail(way))
PutAt(tree, way, new) ==
  IF way = <<>> THEN new ELSE [tree EXCEPT !.parts[Head(way)] = PutAt(@, Tail(way), new)]

\* The blocks that a value owns, each as often as it does
RECURSIVE Owned(_, _, _)
Owned(h, t, v) ==
  IF Dangles(h, t, v) \/ (FormOf(t) = "union" /\ v.t \notin MembersOf(t)) THEN <<>>
  ELSE LET inside ==
             CASE FormOf(t) = "union" -> Owned(h, v.t, v.v)
               [] ~IsPointer(t, v) \/ FormOf(t) \in {"str", "fn"} -> <<>>
               [] FormOf(t) = "any" -> Owned(h, v.t, Within(h, v)[1])
               [] OTHER -> LET vs == Within(h, v)
                           IN FlattenSeq([i \in DOMAIN vs |-> Owned(h, PartsOf(t)[i], vs[i])])
       IN IF IsPointer(t, v) THEN <<v.at>> \o inside ELSE inside

-----------------------------------------------------------------------------
(* Places.  A place is where a value is: a variable, a field of an object, *)
(* or what is in an optional, a union or an any that is known to hold it.  *)
(* `way` leads to it in the tree of its variable, `slot` is its block and  *)
(* index (block 0 is the frame), `named` says whether the name of a field  *)
(* behind it can be assigned, `assigned` whether it can be itself.  Only a *)
(* variable is narrowed to a member of a union or an any, and `as` is no   *)
(* name.                                                                   *)

Target(x) == IF FormOf(declared[x]) = "ref" THEN 1 ELSE x

RECURSIVE PlacesIn(_)
PlacesIn(p) ==
  LET In(i, t) == [p EXCEPT !.slot = <<p.v.at, i>>, !.t = t, !.v = Within(store, p.v)[i],
                            !.ref = FALSE, !.assigned = FALSE]
      Narrowed(q) == [q EXCEPT !.named = @ /\ p.slot[1] = 0 /\ ~p.ref, !.ref = FALSE,
                               !.assigned = FALSE]
  IN {p} \union
     CASE FormOf(p.t) = "obj" ->
            UNION {PlacesIn([In(i, PartsOf(p.t)[i]) EXCEPT !.way = Append(@, i),
                                                           !.assigned = p.named])
                   : i \in DOMAIN PartsOf(p.t)}
       [] FormOf(p.t) = "opt" /\ p.v # NULL -> PlacesIn(In(1, Inner(p.t)))
       [] FormOf(p.t) = "any" /\ p.v.at # 0 -> PlacesIn(Narrowed(In(1, p.v.t)))
       [] FormOf(p.t) = "union" /\ p.v.t \in MembersOf(p.t) ->
            PlacesIn(Narrowed([p EXCEPT !.t = p.v.t, !.v = p.v.v]))
       [] OTHER -> {}

PlacesOf(x) ==
  LET y == Target(x) IN
  PlacesIn([x |-> y, t |-> declared[y], v |-> frame[y], way |-> <<>>, slot |-> <<0, y>>,
            ref |-> x # y, named |-> TRUE, assigned |-> TRUE])
Places == UNION {PlacesOf(x) : x \in DOMAIN declared}
Meant(p) == PartAt(means[p.x], p.way)

-----------------------------------------------------------------------------
(* Expressions.                                                            *)

Fits(target, t) ==
  \/ t = target
  \/ FormOf(target) = "any"
  \/ FormOf(target) = "opt" /\ t = Inner(target)
  \/ FormOf(target) = "opt" /\ FormOf(Inner(target)) = "any" /\ FormOf(t) # "opt"
  \/ FormOf(target) = "union" /\ t \in MembersOf(target)

wrapNodeExpr(h, target, t, v) ==
  CASE FormOf(target) = "any" /\ FormOf(t) # "any" -> any_alloc(h, t, v)
    [] FormOf(target) = "opt" /\ t # target ->
         Then(IF FormOf(Inner(target)) = "any" /\ FormOf(t) # "any"
              THEN any_alloc(h, t, v) ELSE Got(h, v), opt_alloc)
    [] FormOf(target) = "union" /\ t # target -> Got(h, Tagged(t, v))
    [] OTHER -> Got(h, v)

\* A function has no default: the program gives a closure, which captures a variable
RECURSIVE exprObjDefaultField(_, _), DefaultMeaning(_)
exprObjDefaultField(h, t) ==
  CASE FormOf(t) = "any" -> Got(h, Boxed("", 0))
    [] FormOf(t) = "opt" -> Got(h, NULL)
    [] FormOf(t) = "str" -> str_alloc(h, "")
    [] FormOf(t) = "union" -> Got(h, Tagged("-1", Number("0")))
    [] FormOf(t) = "fn" -> Moved(Closure("f", 0), alloc(h, <<Number("&")>>))
    [] FormOf(t) = "obj" ->
         Then(Each(h, PartsOf(t), LAMBDA g, i, p : exprObjDefaultField(g, p)), alloc)
    [] OTHER -> Got(h, Number("0"))

DefaultMeaning(t) ==
  CASE FormOf(t) \in {"any", "opt", "union"} -> Nil
    [] FormOf(t) = "obj" ->
         Tree(t, "obj", [i \in DOMAIN PartsOf(t) |-> DefaultMeaning(PartsOf(t)[i])])
    [] FormOf(t) = "str" -> Tree(t, "", <<>>)
    [] FormOf(t) = "fn" -> Tree(t, "f", <<>>)
    [] OTHER -> Tree(t, "0", <<>>)

Read(p) == [op |-> "read", t |-> p.t, p |-> p, is |-> Meant(p)]
Literal(t, c) == [op |-> "lit", t |-> t, c |-> c, is |-> Tree(t, c, <<>>)]
NilOf(t) == [op |-> "nil", t |-> t, is |-> Nil]
\* An object whose field i is given, the others being left out
New(t, i, e) ==
  [op |-> "obj", t |-> t, i |-> i, e |-> e, is |-> PutAt(DefaultMeaning(t), <<i>>, e.is)]

RECURSIVE nodeExpr(_, _, _)
exprObj(h, e) ==
  Then(Each(h, PartsOf(e.t), LAMBDA g, i, t : IF i = e.i THEN nodeExpr(g, e.e, t)
                                              ELSE exprObjDefaultField(g, t)), alloc)
nodeExpr(h, e, target) ==
  Then(CASE e.op = "read" -> genCopyFn(h, e.t, e.p.v)
         [] e.op = "lit" /\ FormOf(e.t) = "str" -> str_alloc(h, e.c)
         [] e.op = "lit" /\ FormOf(e.t) # "str" -> Got(h, Number(e.c))
         [] e.op = "nil" -> Got(h, NULL)
         [] e.op = "obj" -> exprObj(h, e),
       LAMBDA g, v : wrapNodeExpr(g, target, e.t, v))

TypesOf(forms) == {t \in DOMAIN TypeForms : FormOf(t) \in forms}
Simple(target) ==
  {Read(p) : p \in {p \in Places : Fits(target, p.t)}}
  \union {Literal(t, c) : t \in {t \in TypesOf({"int", "str"}) : Fits(target, t)}, c \in Contents}
  \union {NilOf(t) : t \in {target} \intersect TypesOf({"opt"})}
Objects(target) ==
  UNION {UNION {{New(t, i, e) : e \in Simple(PartsOf(t)[i])} : i \in DOMAIN PartsOf(t)}
         : t \in {t \in TypesOf({"obj"}) : Fits(target, t)}}
Expressions(target) == Simple(target) \union Objects(target)

-----------------------------------------------------------------------------
(* Statements. *)

Nothing == [op |-> "none"]
Keep(h, p, v) ==
  IF p.slot[1] = 0 THEN store' = h /\ frame' = [frame EXCEPT ![p.slot[2]] = v]
  ELSE IF p.slot[1] \notin Live(h) THEN store' = Wrong(h, "misused") /\ frame' = frame
  ELSE store' = [h EXCEPT !.blocks[p.slot[1]][p.slot[2]] = v] /\ frame' = frame

\* exprAssign with the old value freed before the right side, which may be a part of it, is read
exprAssign_Early(p, e) ==
  /\ FormOf(p.t) # "int" /\ ~p.ref
  /\ \E new \in {nodeExpr(genFreeFn(store, p.t, p.v), e, p.t)} : Keep(new.h, p, new.v)
  /\ means' = [means EXCEPT ![p.x] = PutAt(@, p.way, e.is)]
  /\ assigned' = assigned + 1
  /\ UNCHANGED <<declared, lost, answer>>

\* An assignment through a reference is printed as one of C, which frees nothing, unless the
\* right side is a string or any.  The function then is the one of that type, and C refuses it
\* for a left side of another type; for any that is so of an assignment to a variable, too.
exprAssign(p, e) ==
  LET plain == FormOf(p.t) = "int" \/ (p.ref /\ FormOf(e.t) \notin {"str", "any"})
  IN /\ FormOf(e.t) = "any" \/ (p.ref /\ FormOf(e.t) = "str") => p.t = e.t
     /\ \E new \in {nodeExpr(store, e, p.t)} :
          /\ Keep(IF plain THEN new.h ELSE genFreeFn(new.h, p.t, p.v), p, new.v)
          /\ lost' = IF plain THEN lost \union ToSet(Owned(new.h, p.t, p.v)) ELSE lost
     /\ means' = [means EXCEPT ![p.x] = PutAt(@, p.way, e.is)]
     /\ assigned' = assigned + 1
     /\ UNCHANGED <<declared, answer>>

Assign ==
  /\ assigned < MaxAssigned
  /\ \E p \in {p \in Places : p.assigned} : \E e \in Expressions(p.t) : exprAssign(p, e)

ComparedAs(p, q) == IF FormOf(p.t) # "union" /\ FormOf(q.t) = "union" THEN q.t ELSE p.t
exprBinary(p, q, ne) ==
  LET t == ComparedAs(p, q)
  IN Then(Each(store, <<p, q>>, LAMBDA g, i, o : nodeExpr(g, Read(o), t)),
          LAMBDA g, ns : Consumed(g, t, ns[1], ns[2], ne))

Compare == \E p, q \in Places :
  LET t == ComparedAs(p, q)
  IN /\ FormOf(t) \in {"str", "obj", "opt", "union"} /\ hasEq(t, {}) = TRUE
     /\ IF FormOf(t) = "union" THEN Fits(t, p.t) /\ Fits(t, q.t) ELSE p.t = q.t
     /\ \E eq \in {exprBinary(p, q, FALSE)}, ne \in {exprBinary(p, q, TRUE)} :
          /\ store' \in {eq.h, ne.h}
          /\ answer' = [op |-> "compare", t |-> t, same |-> Meant(p) = Meant(q),
                        eq |-> eq.v, ne |-> ne.v]
     /\ UNCHANGED <<declared, frame, means, lost, assigned>>

exprCallPrint == \E p \in Places :
  /\ FormOf(p.t) # "int"
  /\ store' = Then(nodeExpr(store, Read(p), p.t), LAMBDA h, n : Printed(h, p.t, n))
  /\ answer' = [op |-> "print",
                unset |-> \E q \in PlacesIn(p) :
                            FormOf(q.t) = "union" /\ q.v.t \notin MembersOf(q.t)]
  /\ UNCHANGED <<declared, frame, means, lost, assigned>>

\* The end of the block: its variables are freed, the last one first
Leave ==
  /\ LET own == SelectSeq([x \in DOMAIN declared |-> x], LAMBDA x : FormOf(declared[x]) # "ref")
     IN store' = FoldLeft(LAMBDA h, x : genFreeFn(h, declared[x], frame[x]), store, Reverse(own))
  /\ declared' = <<>> /\ frame' = <<>> /\ means' = <<>>
  /\ answer' = Nothing
  /\ UNCHANGED <<lost, assigned>>

\* The compiler wants functions, references and unions to be given a value: a closure, the
\* first variable, and the default of the first member.
nodeVarDeclInit(h, t) ==
  IF FormOf(t) = "ref" THEN Got(h, NULL)
  ELSE IF FormOf(t) = "union"
       THEN Then(exprObjDefaultField(h, Inner(t)),
                 LAMBDA g, v : wrapNodeExpr(g, t, Inner(t), v))
  ELSE exprObjDefaultField(h, t)
InitialMeaning(t) == IF FormOf(t) = "union" THEN DefaultMeaning(Inner(t)) ELSE DefaultMeaning(t)

ValuesInit == \E ts \in Programs :
  LET r == Each([blocks |-> <<>>, wrong |-> {}], ts, LAMBDA g, i, t : nodeVarDeclInit(g, t)) IN
  /\ store = r.h /\ frame = r.v /\ declared = ts
  /\ means = [x \in DOMAIN ts |-> IF FormOf(ts[x]) = "ref" THEN Nil ELSE InitialMeaning(ts[x])]
  /\ lost = {} /\ answer = Nothing /\ assigned = 0

\* A question changes nothing, as the properties say, and is the last one
ValuesNext ==
  /\ declared # <<>> /\ store.wrong = {} /\ answer = Nothing
  /\ Assign \/ Compare \/ exprCallPrint \/ Leave
  /\ Cardinality(Live(store')) <= MaxBlocks

ValuesSpec == ValuesInit /\ [][ValuesNext]_valvars

-----------------------------------------------------------------------------
Holders == FlattenSeq([x \in DOMAIN declared |->
             IF FormOf(declared[x]) = "ref" THEN <<>> ELSE Owned(store, declared[x], frame[x])])

\* Every block is owned by one value of one variable, and one that is reached from no variable
\* is one that an assignment through a reference has replaced.
OneOwner ==
  /\ Cardinality(ToSet(Holders)) = Len(Holders)
  /\ Live(store) = ToSet(Holders) \union lost
  /\ ToSet(Holders) \intersect lost = {}

\* The variables hold what the program means, so that none sees an assignment to another one.
MeaningKept == \A x \in DOMAIN declared :
  FormOf(declared[x]) # "ref" => MeaningOf(store, declared[x], frame[x]) = means[x]

RECURSIVE ByAddress(_, _)
ByAddress(t, seen) ==
  \/ FormOf(t) = "any"
  \/ FormOf(t) = "opt" /\ FormOf(Inner(t)) = "fn"
  \/ t \notin seen /\ \E p \in MembersOf(t) : ByAddress(p, seen \union {t})

\* Two values are equal when they mean the same, and unequal when not; any, and functions in
\* optionals, are compared by address, and a copy has another one.
EqualWhenSame ==
  answer.op = "compare" =>
    /\ answer.ne = ~answer.eq
    /\ IF ByAddress(answer.t, {}) THEN answer.eq => answer.same ELSE answer.eq = answer.same

\* No block is used or freed after it was freed, and what is printed was set, unless it has a
\* union field that was left out where the object was made.
NothingMisused ==
  store.wrong # {} => store.wrong = {"unset"} /\ answer.op = "print" /\ answer.unset

ValuesKept == OneOwner /\ MeaningKept /\ EqualWhenSame /\ NothingMisused
=============================================================================
