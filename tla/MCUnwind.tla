------------------------------ MODULE MCUnwind ------------------------------
(***************************************************************************)
(* Programs for UnwindRun: every way to leave a scope, out of every nest   *)
(* of two compound statements, with and without variables to clean up.     *)
(***************************************************************************)
EXTENDS UnwindRun

\* Statements; n tells the places of one program apart.
Expr(n)   == [k |-> "expr", id |-> n]
CallTo(n) == [k |-> "call", id |-> n]
Heap(n)   == [k |-> "var", id |-> n, calls |-> FALSE]
Fetch(n)  == [k |-> "var", id |-> n, calls |-> TRUE]
If(n, body, alt) == [k |-> "if", id |-> n, calls |-> FALSE, body |-> body, alt |-> alt, elif |-> FALSE]
Elif(n, body, next) == [If(n, body, <<next>>) EXCEPT !.elif = TRUE]
Loop(n, body) ==
  [k |-> "loop", id |-> n, calls |-> FALSE, init |-> <<>>, upd |-> <<Expr(n + 1)>>, body |-> body]
LoopOver(n, body) == [Loop(n, body) EXCEPT !.init = <<Heap(n + 2)>>]
Try(body, handlers) == [k |-> "try", body |-> body, handlers |-> handlers]
Handler(n, on, body) == [on |-> on, x |-> n, body |-> body]
Throw_(n, on) == [k |-> "throw", id |-> n, on |-> on, calls |-> FALSE]
Return_(n)    == [k |-> "return", id |-> n, calls |-> FALSE]
Break_        == [k |-> "break"]
Continue_     == [k |-> "continue"]

Fn(body)    == [main |-> FALSE, throws |-> TRUE, valued |-> TRUE, body |-> body]
Main(body)  == [Fn(body) EXCEPT !.main = TRUE, !.valued = FALSE]
Quiet(body) == [Fn(body) EXCEPT !.throws = FALSE]
NoValue(p)  == [p EXCEPT !.valued = FALSE]

Joined(S, T) == {s \o t : s \in S, t \in T}

\* A block: a variable or none, what the block is about, a call or nothing.
Vars(n) == {<<>>, <<Heap(n)>>, <<Fetch(n)>>}
Around(n, middles) == Joined(Vars(n), Joined(middles, {<<>>, <<CallTo(n + 1)>>}))

\* The ways to leave that a place allows: leave is a set of "throw", "return",
\* "break" and "continue".
Exits(n, leave) ==
  {<<CallTo(n)>>}
    \union (IF "throw" \in leave THEN {<<Throw_(n, "A")>>, <<Throw_(n, "B")>>} ELSE {})
    \union (IF "return" \in leave THEN {<<Return_(n)>>} ELSE {})
    \union (IF "break" \in leave THEN {<<Break_>>} ELSE {})
    \union (IF "continue" \in leave THEN {<<Continue_>>} ELSE {})

Small(n, leave) == Around(n, Exits(n + 2, leave))

\* Each compound statement around the bodies that suit it.
Ifs(n, bodies) ==
  {<<If(n, b, <<>>)>> : b \in bodies}
    \union {<<If(n, <<CallTo(n + 2)>>, b)>> : b \in bodies}
    \union {<<Elif(n, b, If(n + 2, <<CallTo(n + 3)>>, <<>>))>> : b \in bodies}
Loops(n, bodies) == {<<Loop(n, b)>> : b \in bodies}
Tries(n, bodies, leave) ==
  {<<Try(b, <<Handler(n, "A", h)>>)>> : b \in bodies, h \in Exits(n + 1, leave)}
    \union {<<Try(b, <<Handler(n, "A", <<Expr(n + 1)>>), Handler(n + 2, "B", h)>>)>> :
              b \in bodies, h \in Exits(n + 3, leave)}

InFn    == {"throw", "return"}
InMain  == {"throw"}
InQuiet == {"return"}
Jumping == {"break", "continue"}

\* A compound statement with small bodies. In a loop whose body has nothing to
\* clean up, break does not leave a try as it should: BreakInTry below.
Nest1(leave) ==
  Ifs(30, Small(10, leave)) \union Loops(30, Small(10, leave \union Jumping))
    \union Tries(30, Small(10, leave \ {"break"}), leave \ {"break"})

\* A compound statement around another one.
Nest2(leave) ==
  LET in(more) == Joined({<<>>, <<Heap(50)>>}, Joined(Nest1(leave \union more), {<<CallTo(51)>>}))
      guarded  == Joined({<<Heap(50)>>, <<Fetch(50)>>}, Tries(30, Small(10, leave \union Jumping), leave \union Jumping))
  IN  Ifs(60, in({})) \union Loops(60, in(Jumping) \union Joined(guarded, {<<CallTo(51)>>}))
        \union {<<Try(b, <<Handler(60, "A", <<Expr(61)>>)>>)>> : b \in in({})}

\* Nothing in a program without calls that can throw is protected.
QuietNest(leave) == Ifs(30, Small(10, leave)) \union Loops(30, Small(10, leave \union Jumping))
QuietNest2(leave) ==
  LET in(more) == Around(50, QuietNest(leave \union more))
  IN  Ifs(60, in({})) \union Loops(60, in(Jumping))

\* Loops that initialise a variable on the heap, with bodies that do not throw.
HeapLoops(leave) ==
  {<<LoopOver(60, <<Expr(59)>>)>>}
    \union {<<LoopOver(60, <<Heap(58), If(56, <<e>>, <<>>)>>)>> :
              e \in {Expr(57), Break_, Continue_} \union (IF "return" \in leave THEN {Return_(57)} ELSE {})}

Framed(bodies) == Joined({<<>>, <<Fetch(90)>>}, Joined(bodies, {<<CallTo(91)>>}))

ProgramsOfKind(kind) ==
  CASE kind = "fn"      -> {Fn(b) : b \in Framed(Nest1(InFn))}
    [] kind = "nested"  -> {Fn(b) : b \in Framed(Nest2(InFn))}
    [] kind = "main"    -> {Main(b) : b \in Framed(Nest1(InMain))}
    [] kind = "noValue" -> {NoValue(Fn(b)) : b \in Framed(Nest1(InFn))}
    [] kind = "quiet"   -> {Quiet(<<Heap(90)>> \o b) : b \in QuietNest(InQuiet)}
    [] kind = "quietNested" -> {NoValue(Quiet(b)) : b \in Framed(QuietNest2(InQuiet))}
    [] kind = "heapLoop"    -> {Fn(b) : b \in Framed(HeapLoops(InFn))}
    [] kind = "quietHeapLoop" -> {Quiet(<<Heap(92)>> \o b) : b \in Framed(HeapLoops(InFn))}
\* break leaves the try, but not the loop around it.
BreakInTry(kind) ==
  {Main(<<Loop(30, <<Try(b, <<Handler(20, "A", h)>>), Expr(25)>>)>>) :
     b \in {<<CallTo(10), Break_>>, <<CallTo(10)>>}, h \in {<<Break_>>, <<Expr(21)>>}}
=============================================================================
