----------------------------- MODULE Narrowing ------------------------------
(***************************************************************************)
(* How a test narrows the type of what it tests.  In the body of           *)
(* `if x is str` and of `if x != nil` the compiler takes x for a string,   *)
(* for the member of the optional; in the else of `x is str` it takes x    *)
(* for what is left of the union.  The types are kept in a map from the    *)
(* text of an access to a type: typeCasts of the AST builder, by which     *)
(* expressions are typed, and typeCasts of Codegen, by which the member of *)
(* the union is read and the optional dereferenced.  They are computed by  *)
(* two functions named _evalTypeCasts, one over the parsed and one over    *)
(* the typed condition.                                                    *)
(*                                                                         *)
(* The machine walks a function as the compiler does: it enters the body   *)
(* of an if, its else, leaves it, passes an assignment, a call, the        *)
(* declaration of another variable of the same name.  Beside the two maps  *)
(* it carries `possible`, the states of the variables the compiled program *)
(* can be in where the walk is: what the narrowing has to be true of.      *)
(*                                                                         *)
(* A type is a form and its members; a run-time value is the member it is  *)
(* of, or "nil".  An `elif` is an if at the start of the else; the ternary *)
(* operator is an if whose branches are expressions.                       *)
(***************************************************************************)
EXTENDS Naturals, Sequences, FiniteSets, TLC

CONSTANTS
  Names,        \* variables, and fields of objects named by their access
  Captured,     \* the names that are variables of an enclosing function
  Declared,     \* the declared type of each name
  Conditions,   \* the conditions an if may have
  MaxNesting,   \* bound on the ifs inside one another
  MaxIfs,       \* bound on the ifs of the walk
  MaxChanges    \* bound on the assignments, calls and declarations passed

VARIABLES casts, ccasts, possible, frames, doubtful, shadowed, plain, ifs, changes

vars == <<casts, ccasts, possible, frames, doubtful, shadowed, plain, ifs, changes>>

-----------------------------------------------------------------------------
(* Types. *)

Plain(t) == [form |-> "plain", of |-> <<t>>]
Opt(t) == [form |-> "opt", of |-> <<t>>]
Union(ts) == [form |-> "union", of |-> ts]

ValuesOf(type) ==
  {type.of[i] : i \in DOMAIN type.of}
    \union (IF type.form = "opt" THEN {"nil"} ELSE {})

\* What is left of a union without one of its members: the first member when
\* nothing is left, the member that is left when there is one.
unionSub(type, tag) ==
  LET left == SelectSeq(type.of, LAMBDA t : t # tag)
  IN CASE Len(left) = 0 -> Plain(type.of[1])
       [] Len(left) = 1 -> Plain(left[1])
       [] OTHER -> Union(left)

\* The type a name has where the map of casts holds.
TypeUnder(map, x) == IF x \in DOMAIN map THEN map[x] ELSE Declared[x]

-----------------------------------------------------------------------------
(* Conditions: a test of a name, `x is T`, `x == nil` or `x != nil`, of    *)
(* which the tested operand may be an assignment, `(x = v) is T`; a        *)
(* condition that tests no type; two conditions joined by && or ||.        *)

NoCasts == [body |-> <<>>, alt |-> <<>>]

Leaf(c) == c.op \in {"is", "isNil", "notNil"}

\* What one test makes of a name of type `type`.
TestCasts(c, type) ==
  CASE c.op = "is" /\ type.form \in {"any", "opt", "union"} ->
         [body |-> c.name :> Plain(c.tag),
          alt |-> IF type.form = "union" THEN c.name :> unionSub(type, c.tag)
                  ELSE <<>>]
    [] c.op = "isNil" /\ type.form = "opt" ->
         [body |-> <<>>, alt |-> c.name :> Plain(type.of[1])]
    [] c.op = "notNil" /\ type.form = "opt" ->
         [body |-> c.name :> Plain(type.of[1]), alt |-> <<>>]
    [] OTHER -> NoCasts

\* The casts two joined conditions make.  With && what the right one makes
\* comes before what the left one makes, in the body and in the else; with ||
\* a name is cast when both cast it, as the right one does.
Joined(op, l, r) ==
  LET both(f, g) == [x \in DOMAIN f \intersect DOMAIN g |-> g[x]]
  IN IF op = "and" THEN [body |-> r.body @@ l.body, alt |-> r.alt @@ l.alt]
     ELSE [body |-> both(l.body, r.body), alt |-> both(l.alt, r.alt)]

\* AST::_evalTypeCasts: the right operand of && is typed under the casts the
\* left one makes.
RECURSIVE EvalTypeCasts(_, _)
EvalTypeCasts(c, map) ==
  CASE c.op \in {"and", "or"} ->
         LET l == EvalTypeCasts(c.left, map)
             r == EvalTypeCasts(c.right, IF c.op = "and" THEN l.body @@ map
                                         ELSE map)
         IN Joined(c.op, l, r)
    [] Leaf(c) -> TestCasts(c, TypeUnder(map, c.name))
    [] OTHER -> NoCasts

KeyFound_Narrowed(x, map) == x \notin Captured

\* The C text of a name is the key of Codegen's casts, and a name is looked up
\* by the text of the bare variable: the key of a captured variable, which is
\* read through a pointer, and of a name that is already read as the member of
\* its type, is never found again.
KeyFound(x, map) ==
  /\ x \notin Captured
  /\ TypeUnder(map, x).form = "plain" => Declared[x].form = "plain"

\* Codegen::_evalTypeCasts: the operands keep the types the AST builder gave
\* them, under the casts outside of the condition; only the text of the right
\* operand of && is written under the casts of the left one.
RECURSIVE GeneratedTypeCasts(_, _, _)
GeneratedTypeCasts(c, typed, map) ==
  CASE c.op \in {"and", "or"} ->
         LET l == GeneratedTypeCasts(c.left, typed, map)
             r == GeneratedTypeCasts(c.right, typed,
                    IF c.op = "and" THEN l.body @@ map ELSE map)
         IN Joined(c.op, l, r)
    [] Leaf(c) /\ KeyFound(c.name, map) ->
         TestCasts(c, TypeUnder(typed, c.name))
    [] OTHER -> NoCasts

-----------------------------------------------------------------------------
(* What a condition does when the program runs.                            *)

RECURSIVE Tests(_)
Tests(c) == CASE c.op \in {"and", "or"} -> Tests(c.left) \union Tests(c.right)
              [] Leaf(c) -> {c}
              [] OTHER -> {}

Tested(c) == {t.name : t \in Tests(c)}

Assigned(c) == {t.name : t \in {u \in Tests(c) : u.set # "none"}}

\* The C compiler takes the code of a condition: the whole of it is typed and
\* generated under the casts outside of it; the tag of a type is read from a
\* union or an any that is not captured, and the value of an assignment is one
\* of the type its target has.
Compiles(c) ==
  \A t \in Tests(c) :
    LET type == TypeUnder(casts, t.name)
    IN /\ type.form \in (IF t.op = "is" THEN {"union", "any"} ELSE {"opt"})
       /\ t.op = "is" => t.name \notin Captured \union shadowed
       /\ t.set # "none" => /\ t.set \in ValuesOf(type)
                            /\ type = Declared[t.name]
                            /\ t.name \notin shadowed

\* The value of the variable a name stands for: the last one declared.
Held(s, x) == s[x][Len(s[x])]

Put(s, x, v) == [s EXCEPT ![x][Len(s[x])] = v]

\* Evaluating a condition in a state: its value and the state after it.  The
\* right operand runs when the left one does not decide.
RECURSIVE Outcomes(_, _)
Outcomes(c, s) ==
  CASE c.op \in {"and", "or"} ->
         LET l == Outcomes(c.left, s)
             decided == {o \in l : o.is = (c.op = "or")}
         IN decided \union
              UNION {Outcomes(c.right, o.state) : o \in l \ decided}
    [] Leaf(c) ->
         LET t == IF c.set = "none" THEN s ELSE Put(s, c.name, c.set)
             v == Held(t, c.name)
         IN {[is |-> CASE c.op = "is" -> v = c.tag
                       [] c.op = "isNil" -> v = "nil"
                       [] c.op = "notNil" -> v # "nil",
              state |-> t]}
    [] OTHER -> {[is |-> b, state |-> s] : b \in BOOLEAN}

After(c, b) == {o.state : o \in {p \in UNION {Outcomes(c, s) : s \in possible} :
                                   p.is = b}}

\* The names a condition narrows to a type the value need not be of: those a
\* false && tests, since either operand may be the false one; those a true ||
\* casts to two types; those the right operand of && assigns after the left
\* one has tested them.
RECURSIVE Doubt(_, _)
Doubt(c, map) ==
  CASE c.op \in {"and", "or"} ->
         LET l == EvalTypeCasts(c.left, map)
             inner == IF c.op = "and" THEN l.body @@ map ELSE map
             r == EvalTypeCasts(c.right, inner)
             dl == Doubt(c.left, map)
             dr == Doubt(c.right, inner)
         IN IF c.op = "and"
            THEN [body |-> dl.body \union dr.body \union
                             (DOMAIN l.body \intersect Assigned(c.right)),
                  alt |-> Tested(c)]
            ELSE [body |-> dl.body \union dr.body \union
                             {x \in DOMAIN l.body \intersect DOMAIN r.body :
                                l.body[x] # r.body[x]},
                  alt |-> dl.alt \union dr.alt]
    [] OTHER -> [body |-> {}, alt |-> {}]

-----------------------------------------------------------------------------
Init ==
  /\ casts = <<>>
  /\ ccasts = <<>>
  /\ possible = {[x \in Names |-> <<s[x]>>] :
                   s \in {t \in [Names -> UNION {ValuesOf(Declared[x]) :
                                                   x \in Names}] :
                            \A x \in Names : t[x] \in ValuesOf(Declared[x])}}
  /\ frames = <<>>
  /\ doubtful = {}
  /\ shadowed = {}
  /\ plain = TRUE
  /\ ifs = 0
  /\ changes = 0

Top == frames[Len(frames)]
Below == SubSeq(frames, 1, Len(frames) - 1)

\* The variables a block declared are gone behind it.
Unshadowed(states) ==
  {[x \in Names |-> IF x \in shadowed \ Top.shadowed
                    THEN SubSeq(s[x], 1, Len(s[x]) - 1) ELSE s[x]] :
     s \in states}

\* An if: its condition is evaluated for its casts, then typed and generated,
\* and the body is walked under what the condition makes in addition.
EnterBody(c) ==
  LET made == EvalTypeCasts(c, casts)
      cmade == GeneratedTypeCasts(c, casts, ccasts)
      doubt == Doubt(c, casts)
  IN /\ Len(frames) < MaxNesting
     /\ ifs < MaxIfs
     /\ ifs' = ifs + 1
     /\ Compiles(c)
     /\ frames' = Append(frames,
          [casts |-> casts, ccasts |-> ccasts, alt |-> made.alt,
           calt |-> cmade.alt, doubtful |-> doubtful, doubt |-> doubt.alt,
           shadowed |-> shadowed, changed |-> {}, else |-> FALSE,
           other |-> After(c, FALSE)])
     /\ casts' = made.body @@ casts
     /\ ccasts' = cmade.body @@ ccasts
     /\ possible' = After(c, TRUE)
     /\ doubtful' = doubtful \union doubt.body
     /\ plain' = (plain /\ c.op = "is" /\ c.set = "none")
     /\ UNCHANGED <<shadowed, changes>>

EnterAlt_NotRestored ==
  /\ frames # <<>>
  /\ ~Top.else
  /\ casts' = Top.alt @@ casts
  /\ ccasts' = Top.calt @@ Top.ccasts
  /\ possible' = Top.other
  /\ doubtful' = Top.doubtful \union Top.doubt
  /\ shadowed' = Top.shadowed
  /\ frames' = Append(Below, [Top EXCEPT !.else = TRUE,
                                         !.other = Unshadowed(possible)])
  /\ UNCHANGED <<plain, ifs, changes>>

\* The end of the body and the start of the else, walked under the casts of
\* before the if and what the condition makes when it is false.
EnterAlt ==
  /\ frames # <<>>
  /\ ~Top.else
  /\ casts' = Top.alt @@ Top.casts
  /\ ccasts' = Top.calt @@ Top.ccasts
  /\ possible' = Top.other
  /\ doubtful' = Top.doubtful \union Top.doubt
  /\ shadowed' = Top.shadowed
  /\ frames' = Append(Below, [Top EXCEPT !.else = TRUE,
                                         !.other = Unshadowed(possible)])
  /\ UNCHANGED <<plain, ifs, changes>>

\* The end of the if, with or without an else: the casts of before it.
Leave ==
  /\ frames # <<>>
  /\ casts' = Top.casts
  /\ ccasts' = Top.ccasts
  /\ possible' = Top.other \union Unshadowed(possible)
  /\ shadowed' = Top.shadowed
  /\ doubtful' = IF Below = <<>> THEN {} ELSE Top.doubtful \union Top.changed
  /\ frames' = IF Below = <<>> THEN <<>>
               ELSE [Below EXCEPT ![Len(Below)].changed = @ \union Top.changed]
  /\ UNCHANGED <<plain, ifs, changes>>

Change == /\ changes < MaxChanges
          /\ changes' = changes + 1
          /\ plain' = FALSE
          /\ UNCHANGED ifs

\* An assignment to the name: of a value of the type the name has here, which
\* the generated code writes as one of that type.  A variable whose narrowing
\* is in doubt is left alone: what is written over another member is undefined.
Assign(x, v) ==
  /\ Change
  /\ x \notin doubtful
  /\ TypeUnder(casts, x) = TypeUnder(ccasts, x)
  /\ TypeUnder(casts, x) = Declared[x] \/ TypeUnder(casts, x).form = "plain"
  /\ v \in ValuesOf(TypeUnder(casts, x))
  /\ possible' = {Put(s, x, v) : s \in possible}
  /\ UNCHANGED <<casts, ccasts, frames, doubtful, shadowed>>

\* A change that is not an assignment to the name: a function that is called
\* assigns it, or the object whose field it is is assigned.  The casts stay.
ChangeElsewhere(x, v) ==
  /\ Change
  /\ frames # <<>>
  /\ x \in DOMAIN casts
  /\ x \notin shadowed
  /\ v \in ValuesOf(Declared[x])
  /\ possible' = {Put(s, x, v) : s \in possible}
  /\ doubtful' = doubtful \union {x}
  /\ frames' = [frames EXCEPT ![Len(frames)].changed = @ \union {x}]
  /\ UNCHANGED <<casts, ccasts, shadowed>>

\* A block declares another variable of the name, of the same declared type.
\* The AST builder looks the casts up by the name and finds those of the other
\* variable; Codegen looks them up by the code name, which is a new one.
Shadow(x, v) ==
  /\ Change
  /\ frames # <<>>
  /\ x \in DOMAIN casts
  /\ x \notin shadowed \union Captured
  /\ v \in ValuesOf(Declared[x])
  /\ possible' = {[s EXCEPT ![x] = Append(@, v)] : s \in possible}
  /\ shadowed' = shadowed \union {x}
  /\ doubtful' = doubtful \union {x}
  /\ ccasts' = [y \in DOMAIN ccasts \ {x} |-> ccasts[y]]
  /\ UNCHANGED <<casts, frames>>

Values == UNION {ValuesOf(Declared[x]) : x \in Names}

Next ==
  \/ \E c \in Conditions : EnterBody(c)
  \/ EnterAlt
  \/ Leave
  \/ \E x \in Names, v \in Values :
       Assign(x, v) \/ ChangeElsewhere(x, v) \/ Shadow(x, v)

Spec == Init /\ [][Next]_vars

-----------------------------------------------------------------------------
(* Properties. *)

Types ==
  UNION {{Declared[x]} \union {Plain(v) : v \in ValuesOf(Declared[x])}
           \union {Union(SelectSeq(Declared[x].of, LAMBDA t : t \in S)) :
                     S \in {T \in SUBSET ValuesOf(Declared[x]) :
                              Cardinality(T) > 1}} : x \in Names}

\* The casts narrow declared names to types; every state gives every name the
\* values of the variables it stands for.
CastsOK ==
  /\ DOMAIN casts \subseteq Names /\ DOMAIN ccasts \subseteq Names
  /\ \A x \in DOMAIN casts : casts[x] \in Types
  /\ \A x \in DOMAIN ccasts : ccasts[x] \in Types
  /\ \A s \in possible : \A x \in Names :
       /\ Len(s[x]) = (IF x \in shadowed THEN 2 ELSE 1)
       /\ \A i \in DOMAIN s[x] : s[x][i] \in ValuesOf(Declared[x])
  /\ Len(frames) <= MaxNesting
  /\ doubtful \subseteq Names /\ shadowed \subseteq Names

\* Wherever the program can be, a name holds a value of the type the compiler
\* takes it for (_evalTypeCasts and its uses in AST.cpp): after ifs, elifs and
\* elses inside one another, joined conditions, assignments in conditions and
\* in blocks.  The names in doubt are left out, those of the three kinds of
\* condition Doubt names, of a change that is not an assignment and of a
\* declaration of the same name.
CastsHold ==
  \A x \in DOMAIN casts \ doubtful :
    \A s \in possible : Held(s, x) \in ValuesOf(casts[x])

\* Where every test so far was a single `is`, a union has been narrowed to no
\* more than what it can hold: an else behind a chain of tests has the members
\* none of them named (TypeMap::unionSub).
UnionsNarrowExactly ==
  plain /\ possible # {} =>
    \A x \in Names : Declared[x].form = "union" =>
      ValuesOf(TypeUnder(casts, x)) = {Held(s, x) : s \in possible}

\* The type a test narrows a name to has every value the name can hold, and no
\* member of a union more.
NarrowingSound == CastsOK /\ CastsHold /\ UnionsNarrowExactly

\* Codegen reads a name as a value of the type the AST builder typed it with:
\* the two implementations of _evalTypeCasts and their uses agree, except for
\* captured variables, of which Codegen forgets the narrowing, and for a second
\* variable of a name, for which the AST builder keeps the narrowing.
CastsAgree ==
  \A x \in Names \ (Captured \union shadowed) :
    TypeUnder(casts, x) = TypeUnder(ccasts, x)
=============================================================================
