------------------------------ MODULE CleanUp ------------------------------
(***************************************************************************)
(* The class CodegenCleanUp: what the code generator remembers, while it   *)
(* prints a function, of the statements that must run when a scope is left.*)
(*                                                                         *)
(* A generator g is a record with                                          *)
(*   scopes : the chain of clean-ups; the last one is state.cleanUp and    *)
(*            the one before a scope is the scope its parent points to;    *)
(*   next   : labelIdx, which add() keeps equal in the whole chain, used   *)
(*            for every other label of the C text as well;                 *)
(*   code   : the C statements printed so far, as a flat sequence;         *)
(*   used   : which of the variables breakVarUsed, ... are set, and in    *)
(*            which scope;                                                 *)
(*   throws, valued : Codegen::throws, and whether the function returns a  *)
(*            value.                                                       *)
(* A scope holds items; an item is a run of statements that begins with a  *)
(* label. Items are printed last first, so that a jump to a label runs the *)
(* clean-up of everything that was there when the jump was printed.        *)
(***************************************************************************)
EXTENDS Integers, SequencesExt

LOCAL TopOf(S) == CHOOSE i \in S : \A j \in S : i >= j

Current(g) == Last(g.scopes)

\* CodegenCleanUp::CodegenCleanUp, followed by the assignment to state.cleanUp.
Push(g, type) ==
  LET depth == IF g.scopes = <<>> THEN 0 ELSE Current(g).depth
  IN  [g EXCEPT !.scopes = Append(@, [type |-> type, depth |-> depth, items |-> <<>>])]

\* state.cleanUp = initialStateCleanUp: what was marked in the parents stays.
Pop(g) == [g EXCEPT !.scopes = Front(@), !.used = {u \in @ : u[2] # Len(g.scopes)}]

\* Null statements are printed as nothing and do not count. That is why the
\* null statement that _block adds to the body of a loop with a try and a break
\* (block.cpp:39-46) changes nothing, and is left out.
Empty(scope) == \A i \in DOMAIN scope.items : scope.items[i].content = <<>>

\* The item the next clean-up goes to must not have a label that is used yet:
\* a jump already printed must not run a clean-up of a later variable.
NeedsItem(scope) == Empty(scope) \/ Last(scope.items).used

\* add() of each of stmts, the last one first, which is what merge() does.
Add_Behind(g, stmts) ==
  LET n     == Len(g.scopes)
      scope == Current(g)
      items == IF NeedsItem(scope)
                 THEN Append(scope.items, [label |-> g.next, content |-> <<>>, used |-> FALSE])
                 ELSE scope.items
  IN  [g EXCEPT !.next = IF NeedsItem(scope) THEN @ + 1 ELSE @,
                !.scopes[n].items = [items EXCEPT ![Len(items)].content = @ \o stmts]]

Add(g, stmts) ==
  LET n     == Len(g.scopes)
      scope == Current(g)
      items == IF NeedsItem(scope)
                 THEN Append(scope.items, [label |-> g.next, content |-> <<>>, used |-> FALSE])
                 ELSE scope.items
  IN  [g EXCEPT !.next = IF NeedsItem(scope) THEN @ + 1 ELSE @,
                !.scopes[n].items = [items EXCEPT ![Len(items)].content = stmts \o @]]

\* Is there anything to clean up between here and the scope of that type?
HasCleanUp(g, type) ==
  \E i \in DOMAIN g.scopes :
    /\ ~Empty(g.scopes[i])
    /\ \A j \in DOMAIN g.scopes : j > i => g.scopes[j].type # type

\* The scope currentLabel() stops at, and the label it returns.
LabelScope(g) == TopOf({i \in DOMAIN g.scopes : ~Empty(g.scopes[i])})
CurrentLabel(g) == Last(g.scopes[LabelScope(g)].items).label

\* The variables breakVarUsed, continueVarUsed, returnVarUsed and valueVarUsed
\* of the scopes from here down to the scope number last.
Mark_Here(g, what, last) == [g EXCEPT !.used = @ \union {<<what, Len(g.scopes)>>}]
Mark(g, what, last) == [g EXCEPT !.used = @ \union ({what} \X (last .. Len(g.scopes)))]
Used(g, what) == <<what, Len(g.scopes)>> \in g.used

MarkLabel(g) ==
  LET k == LabelScope(g)
      n == Len(g.scopes[k].items)
  IN  [Mark(g, "value", k) EXCEPT !.scopes[k].items[n].used = TRUE]

\* The scope a break, continue or return variable belongs to. The way to it is
\* marked, so that the end of every block on it tests the variable.
OwnerOf(g, type) == TopOf({i \in DOMAIN g.scopes : g.scopes[i].type = type})

MarkBreak(g)    == Mark(g, "break", OwnerOf(g, "loop"))
MarkContinue(g) == Mark(g, "continue", OwnerOf(g, "loop"))
MarkReturn(g)   == Mark(g, "return", OwnerOf(g, "fn"))
MarkValue(g)    == Mark(g, "value", OwnerOf(g, "fn"))

BreakVar(g)    == <<"b", g.scopes[OwnerOf(g, "loop")].depth>>
ContinueVar(g) == <<"c", g.scopes[OwnerOf(g, "loop")].depth>>
ReturnVar      == <<"r", 0>>

\* gen(): the items, last first, each behind its label if a jump uses it.
Gen(scope) ==
  FoldLeft(LAMBDA text, item :
             (IF item.used THEN <<[op |-> "label", at |-> item.label]>> ELSE <<>>)
               \o item.content \o text, <<>>, scope.items)

Emit(g, stmts) == [g EXCEPT !.code = @ \o stmts]
=============================================================================
