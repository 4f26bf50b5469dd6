----------------------------- MODULE Precedence -----------------------------
(***************************************************************************)
(* How the parser finds the operands of an operator.  It reads an operand, *)
(* then one operator after the other with the operand behind it, and       *)
(* rewrites the tree that it has: the new operator takes the whole tree,   *)
(* or goes down to the last operand of an operator that binds less         *)
(* (_wrapStmtExpr and _wrapExpr).  No grammar says what comes out; the     *)
(* table of precedences and the directions of two operators of one level   *)
(* do, and WellPlaced states what they ask for.                            *)
(*                                                                         *)
(* Elements, arguments, properties and the middle of a conditional are     *)
(* read as expressions of their own: here they are one token.  A type      *)
(* behind `as` and `is` is one token too.                                  *)
(***************************************************************************)
EXTENDS Naturals, Sequences, SequencesExt

CONSTANTS
  Operands,    \* what _stmtExpr(false) reads: prefixes and what they are for
  Infix,       \* binary, assigning and conditional operators that are used
  MaxWraps     \* bound on the operators behind the first operand

VARIABLES
  tree,        \* the expression read so far: Unread, Rejected or a tree
  text,        \* its tokens
  wraps,       \* operators read
  ended        \* rejected, or a block follows

pvars == <<tree, text, wraps, ended>>

-----------------------------------------------------------------------------
(* Tokens. *)

AssignOps == {"&=", "&&=", "^=", "=", "<<=", "-=", "%=", "|=", "||=", "+=", ">>=", "/=", "*="}
TypeOps == {"as", "is"}

\* Token::precedence; of the prefixes - and + the unary one
precedence(op) ==
  CASE op \in {"{", "("} -> 18
    [] op \in {".", "["} -> 17
    [] op \in {"--", "++"} -> 16
    [] op \in {"%", "/", "*"} -> 12
    [] op \in {"-", "+"} -> 11
    [] op \in {"<<", ">>"} -> 10
    [] op \in {">", ">=", "<", "<="} \union TypeOps -> 9
    [] op \in {"==", "!="} -> 8
    [] op = "&" -> 7
    [] op = "^" -> 6
    [] op = "|" -> 5
    [] op = "&&" -> 4
    [] op = "||" -> 3
    [] op \in AssignOps \union {"?"} -> 2

prefixPrecedence(op) ==
  CASE op \in {"--", "++"} -> 16
    [] op \in {"await", "ref"} -> 15
    [] op \in {"!", "-", "+", "~"} -> 14

\* Token::associativity of the operators that have a right operand
RightAssociative == AssignOps \union {"?"}

-----------------------------------------------------------------------------
(* Trees.  The last of the parts stands at the end of the text, unless the *)
(* operator does.                                                          *)

Node(kind, op, parts) == [kind |-> kind, op |-> op, parts |-> parts, parenthesized |-> FALSE]
Rejected == Node("error", "", <<>>)
Unread == Node("none", "", <<>>)

Prefixed == {"await", "prefix", "ref"}
RightOpen(t) == t.kind \in Prefixed \union {"assign", "binary", "cond"} /\ ~t.parenthesized
LeftOpen(t) == t.parts # <<>> /\ t.kind \notin Prefixed /\ ~t.parenthesized
Level(t) == IF t.kind \in Prefixed THEN prefixPrecedence(t.op) ELSE precedence(t.op)

\* `a`, `a.b`, whatever the parentheses: what may stand before the properties of an object
RECURSIVE isValidExprObjId(_)
isValidExprObjId(t) ==
  t.kind = "access" /\ (t.parts # <<>> => t.op = "." /\ isValidExprObjId(t.parts[1]))

\* Where a statement looks for an object that was its body: `if a {}`
RECURSIVE stmtExprLastChild(_)
stmtExprLastChild(t) ==
  IF t.kind \in {"assign", "binary", "cond"} THEN stmtExprLastChild(Last(t.parts)) ELSE t

-----------------------------------------------------------------------------
(* An operator meets the tree.  `w` is what the operator makes, its token  *)
(* and, where it has one, the operand behind it.                           *)

\* A string literal joins one that is the right operand of a binary operator, whichever it is.
JoinsLiterals(t, w) ==
  /\ t.kind = "binary" /\ ~t.parenthesized /\ t.parts[2].kind = "str"
  /\ w.op = "+" /\ w.right[1].kind = "str"

wrap(t, w) ==
  IF w.kind \in {"assign", "postfix"} /\ t.kind # "access" THEN Rejected
  ELSE IF w.kind = "block" \/ (w.kind = "obj" /\ ~isValidExprObjId(t)) THEN t
  ELSE IF w.kind = "binary" /\ JoinsLiterals(t, w)
    THEN [t EXCEPT !.parts[2] = Node("binary", "+", <<t.parts[2]>> \o w.right)]
  ELSE Node(w.kind, w.op, <<t>> \o w.right)

Descends_Always(t, p) == RightOpen(t) /\ Level(t) <= p
Descends(t, p) ==
  /\ RightOpen(t)
  /\ IF t.kind \in {"assign", "binary"} /\ Level(t) = p THEN t.op \in RightAssociative
     ELSE Level(t) < p \/ (t.kind = "cond" /\ Level(t) = p)

RECURSIVE wrapExpr(_, _)
wrapExpr(t, w) ==
  IF ~Descends(t, precedence(w.op)) THEN wrap(t, w)
  ELSE LET inner == wrapExpr(Last(t.parts), w) IN
       IF inner = Rejected \/ (t.kind = "ref" /\ inner.kind # "access") THEN Rejected
       ELSE [t EXCEPT !.parts[Len(t.parts)] = inner]

\* The operand that a prefix makes of what is behind it
Prefix(op, t) ==
  IF (op = "ref" /\ t.kind \notin {"access", "as"}) \/ (op \in {"--", "++"} /\ t.kind # "access")
  THEN Rejected
  ELSE Node(IF op \in {"await", "ref"} THEN op ELSE "prefix", op, <<t>>)

-----------------------------------------------------------------------------
(* Reading an expression. *)

RECURSIVE Flat(_)
Flat(t) ==
  LET inside == CASE t.parts = <<>> -> <<t.op>>
                  [] t.kind \in Prefixed -> <<t.op>> \o Flat(t.parts[1])
                  [] Len(t.parts) = 1 -> Flat(t.parts[1]) \o <<t.op>>
                  [] Len(t.parts) = 2 -> Flat(t.parts[1]) \o <<t.op>> \o Flat(t.parts[2])
  IN IF t.parenthesized THEN <<"begin">> \o inside \o <<"end">> ELSE inside

\* A type reads on: what follows `as` and `is` takes `?`, `|`, `.` and `[` for its own
TypeTakes == {"?", "|", ".", "["}

ParseInit == tree = Unread /\ text = <<>> /\ wraps = 0 /\ ended = FALSE

ReadOperand ==
  /\ tree = Unread
  /\ tree' \in Operands
  /\ text' = Flat(tree')
  /\ UNCHANGED <<wraps, ended>>

Wrap(kind, op, right) ==
  LET new == wrapExpr(tree, [kind |-> kind, op |-> op, right |-> right]) IN
    /\ tree # Unread /\ ~ended /\ wraps < MaxWraps
    /\ ~(Last(text) \in TypeOps /\ op \in TypeTakes)
    /\ tree' = new
    /\ wraps' = wraps + 1
    /\ ended' = (new \in {tree, Rejected})
    /\ text' = CASE new = Rejected -> <<"error">>
                 [] new = tree -> text
                 [] OTHER -> Append(text, op) \o (IF right = <<>> THEN <<>> ELSE Flat(right[1]))

KindOf(op) == CASE op \in AssignOps -> "assign" [] op = "?" -> "cond" [] OTHER -> "binary"

WrapInfix == \E op \in Infix, right \in Operands : Wrap(KindOf(op), op, <<right>>)
WrapType == \E op \in TypeOps : Wrap(op, op, <<>>)
WrapAccess == \E op \in {".", "["} : Wrap("access", op, <<>>)
WrapCall == Wrap("call", "(", <<>>)
WrapUnary == \E op \in {"--", "++"} : Wrap("postfix", op, <<>>)

\* Braces: the properties of an object, or a block with which the expression ends.  Empty ones
\* are taken for properties.
WrapBraces == \E kind \in {"obj", "block"} : Wrap(kind, "{", <<>>)

ParseNext == ReadOperand \/ WrapInfix \/ WrapType \/ WrapAccess \/ WrapCall \/ WrapUnary \/ WrapBraces

-----------------------------------------------------------------------------
(* What the table of precedences asks for. *)

\* `a + ("x" + "y")`, written without the parentheses
JoinsText(t) == t.kind = "binary" /\ t.op = "+" /\ ~t.parenthesized /\ t.parts[1].kind = "str"

RECURSIVE Subtrees(_), RightSpine(_), LeftSpine(_)
Subtrees(t) == {t} \union UNION {Subtrees(t.parts[i]) : i \in DOMAIN t.parts}

\* What could have taken an operator that stands behind t
RightSpine(t) ==
  IF ~RightOpen(t) THEN {}
  ELSE LET last == Last(t.parts)
       IN {t} \union (RightSpine(last) \ IF JoinsText(last) THEN {last} ELSE {})

\* What could have left its first operand to an operator that stands before t
LeftSpine(t) == IF LeftOpen(t) THEN {t} \union LeftSpine(t.parts[1]) ELSE {}

\* Two operators of one level: only those that assign and choose group to the right.
GroupsRight(level) == level = 2

TakesItsLeft(n) ==
  LeftOpen(n) => \A x \in RightSpine(n.parts[1]) :
    \/ Level(x) > precedence(n.op)
    \/ Level(x) = precedence(n.op) /\ ~GroupsRight(Level(x))

TakesItsRight(n) ==
  RightOpen(n) /\ ~JoinsText(Last(n.parts)) => \A x \in LeftSpine(Last(n.parts)) :
    \/ precedence(x.op) > Level(n)
    \/ precedence(x.op) = Level(n) /\ GroupsRight(Level(n))

\* The tree has the tokens of the text in their order, and every operator has
\* the operands that precedence and direction give it.
WellPlaced ==
  Flat(tree) = text /\ \A n \in Subtrees(tree) : TakesItsLeft([n EXCEPT !.parenthesized = FALSE])
                                              /\ TakesItsRight([n EXCEPT !.parenthesized = FALSE])

\* What is assigned to, counted or referred to is an access.  A call or an
\* object behind `++` passes: E0142 is tested before the rest of the operand is
\* read (Parser.cpp:874), and not again.
TargetsAreAccesses ==
  \A n \in Subtrees(tree) :
    /\ n.kind \in {"assign", "postfix"} => n.parts[1].kind = "access"
    /\ n.kind = "ref" => n.parts[1].kind \in {"access", "as"}
    /\ n.op \in {"--", "++"} /\ n.kind = "prefix" => n.parts[1].kind \in {"access", "call", "obj"}

\* Empty braces behind a condition can be given back to the statement as its
\* body.  Behind a prefix they cannot: `if !done {}` is an error (Parser.cpp:59).
EmptyBodyFound ==
  Last(text) = "{" =>
    \/ stmtExprLastChild(tree).kind = "obj"
    \/ \E n \in RightSpine(tree) : n.kind \in Prefixed

\* Whatever the operators and their order, the expression that is not rejected
\* is the one precedence and direction ask for, assigns to what can be assigned
\* to, and gives back the braces of a body.
ExpressionsPlaced ==
  tree \notin {Unread, Rejected} => WellPlaced /\ TargetsAreAccesses /\ EmptyBodyFound
=============================================================================
