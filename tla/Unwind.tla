------------------------------- MODULE Unwind -------------------------------
(***************************************************************************)
(* How the generated C code leaves scopes: the statements of a function    *)
(* are printed as Codegen prints them, with labels, gotos, flags, setjmp   *)
(* and longjmp, and the printed code is then run.                          *)
(*                                                                         *)
(* A program is a record [main, throws, valued, body]: the body of main or *)
(* of a function, whether anything in the program can throw                *)
(* (Codegen::throws) and whether the function returns a value. A block is  *)
(* a sequence of statements, at least one, see CompileNode. A statement    *)
(* "var" declares a variable that must be freed, and calls says of a       *)
(* statement whether its expression is a call. main has no return.         *)
(*                                                                         *)
(* at is what a statement knows of its surroundings: the kind of its       *)
(* parent, whether errors of the block are handled by a try, and where a C *)
(* break and a C continue go from here. Hoisted declarations (block.cpp    *)
(* 51-71) clean up nothing and are left out.                               *)
(***************************************************************************)
EXTENDS CleanUp

-----------------------------------------------------------------------------
(* Codegen: statements to C. *)

Jump(to)      == [op |-> "jump", to |-> to]
JumpIf(f, to) == [op |-> "jumpIf", flag |-> f, to |-> to]
Label(at)     == [op |-> "label", at |-> at]
Pending       == <<"err", 0>>    \* err_state.id != -1, tested like a flag

BufDecrease == [op |-> "bufdec"]
LongjmpIf   == [op |-> "longjmpIf"]
StackPop    == [op |-> "pop"]

\* goto currentLabel(), from where g stands.
Goto(g)         == Emit(MarkLabel(g), <<Jump(CurrentLabel(g))>>)
GotoIf(g, flag) == Emit(MarkLabel(g), <<JumpIf(flag, CurrentLabel(g))>>)

\* ASTChecker::throwsPossible of one statement: any call counts.
ThrowsPossible(s) == s.k = "call" \/ (s.k = "var" /\ s.calls)

\* The setjmp in front of a statement that may throw. The block gets a buffer
\* with its first one and fills the same buffer again for the later ones.
Protect_Once(g, jumpedBefore) ==
  IF jumpedBefore THEN g
  ELSE LET g1 == Add(g, <<BufDecrease>>)
       IN  Emit(MarkLabel(g1), <<[op |-> "setjmp", new |-> TRUE, to |-> CurrentLabel(g1)]>>)

Protect(g, jumpedBefore) ==
  LET g1 == IF jumpedBefore THEN g ELSE Add(g, <<BufDecrease>>)
  IN  Emit(MarkLabel(g1), <<[op |-> "setjmp", new |-> ~jumpedBefore, to |-> CurrentLabel(g1)]>>)

\* The end of a block, after its clean-up. b is the generator that still has the
\* scope of the block, g the one that has only the scopes around it.
ErrorTest_Caught(g, b, at) == g

ErrorTest(g, b, at) ==
  IF at.kind # "main" /\ g.throws /\ ~Empty(Current(b)) /\ ~at.handled
    THEN GotoIf(g, Pending) ELSE g

ContinueTest(g, b, at) ==
  IF at.kind = "loop" \/ ~Used(b, "continue") THEN g
  ELSE IF HasCleanUp(g, "loop") THEN GotoIf(g, ContinueVar(g))
  ELSE Emit(g, <<JumpIf(ContinueVar(g), at.next)>>)

BreakTest(g, b, at) ==
  IF ~Used(b, "break") THEN g
  ELSE IF at.kind # "loop" /\ HasCleanUp(g, "loop") THEN GotoIf(g, BreakVar(g))
  ELSE Emit(g, <<JumpIf(BreakVar(g), at.leave)>>)

ReturnIf(val) == <<[op |-> "retIf", val |-> val]>>

ReturnTest(g, b) ==
  IF ~Used(b, "return") \/ Empty(Current(b)) THEN g
  ELSE IF HasCleanUp(g, "fn") THEN GotoIf(g, ReturnVar)
  ELSE Emit(g, ReturnIf("none"))

BlockEnd(b, at) ==
  LET g == Pop(Emit(b, Gen(Current(b))))
  IN  ReturnTest(BreakTest(ContinueTest(ErrorTest(g, b, at), b, at), b, at), b)

Break(g, last, at) ==
  IF ~HasCleanUp(g, "loop") THEN Emit(g, <<Jump(at.leave)>>)
  ELSE LET g1 == Emit(MarkBreak(g), <<[op |-> "set", flag |-> BreakVar(g)]>>)
       IN  IF last THEN g1 ELSE Goto(g1)

Continue(g, last, at) ==
  IF ~HasCleanUp(g, "loop") THEN Emit(g, <<Jump(at.next)>>)
  ELSE LET g1 == IF at.kind = "loop" THEN g
                 ELSE Emit(MarkContinue(g), <<[op |-> "set", flag |-> ContinueVar(g)]>>)
       IN  IF last THEN g1 ELSE Goto(g1)

Evaluate(s) == IF s.calls THEN <<[op |-> "call", id |-> s.id]>> ELSE <<>>

Return(g, s, last, at) ==
  LET n    == Len(g.scopes)
      deep == n > 1 /\ g.scopes[n - 1].type # "root"
      g1   == IF deep /\ HasCleanUp(g, "fn")
                THEN Emit(MarkReturn(g), <<[op |-> "set", flag |-> ReturnVar]>>) ELSE g
      g2   == IF g.valued
                THEN Emit(MarkValue(g1), Evaluate(s) \o <<[op |-> "value", id |-> s.id]>>) ELSE g1
  IN  IF HasCleanUp(g, "fn") \/ Used(g, "return")
        THEN IF (at.kind # "fn" /\ Empty(Current(g2))) \/ ~last THEN Goto(g2) ELSE g2
        ELSE IF g.valued
          THEN Emit(g, Evaluate(s) \o <<[op |-> "value", id |-> s.id], [op |-> "ret", val |-> "v"]>>)
          ELSE Emit(g, <<[op |-> "ret", val |-> "none"]>>)

Throw(g, s) == Goto(Emit(g, Evaluate(s) \o <<[op |-> "raise", on |-> s.on, id |-> s.id]>>))

VarDecl(g, s) == Add(Emit(g, Evaluate(s) \o <<[op |-> "init", x |-> s.id]>>),
                     <<[op |-> "free", x |-> s.id]>>)

\* A condition, and the jump over what it guards.
Test(s, to) == Evaluate(s) \o <<[op |-> "branch", id |-> s.id, to |-> to]>>

\* Two labels that nothing else uses.
Fresh(g) == [g EXCEPT !.next = @ + 2]

RECURSIVE CompileNode(_, _, _, _), CompileNodes(_, _, _, _, _)

CompileNodes(g, block, i, jumpedBefore, at) ==
  IF i > Len(block) THEN g
  ELSE LET guarded == g.throws /\ ThrowsPossible(block[i])
           g1 == IF guarded THEN Protect(g, jumpedBefore) ELSE g
       IN  CompileNodes(CompileNode(g1, block[i], i = Len(block), at),
                        block, i + 1, jumpedBefore \/ guarded, at)

\* Codegen::_block with saveCleanUp; data is cleanupData.
CompileBlock(g, block, data, at) ==
  LET g1 == Push(g, "block")
      g2 == IF data = <<>> THEN g1 ELSE Add(g1, data)
  IN  BlockEnd(CompileNodes(g2, block, 1, FALSE, at), at)

CompileIf(g, s, at) ==
  LET skip == g.next
      end  == g.next + 1
      in   == [at EXCEPT !.kind = "if", !.handled = FALSE]
      g1 == CompileBlock(Emit(Fresh(g), Test(s, skip)), s.body, <<>>, in)
      g2 == Emit(g1, <<Jump(end), Label(skip)>>)
      g3 == IF s.elif THEN CompileNode(g2, s.alt[1], FALSE, in)
            ELSE IF s.alt = <<>> THEN g2
            ELSE CompileBlock(g2, s.alt, <<>>, in)
  IN  Emit(g3, <<Label(end)>>)

\* The clean-up of the loop's own variable, behind the loop.
LoopEnd(g) ==
  LET g1 == Pop(Emit(g, Gen(Current(g))))
  IN  IF Empty(Current(g)) \/ ~Used(g, "return") THEN g1
      ELSE IF HasCleanUp(g1, "fn") THEN GotoIf(g1, ReturnVar)
      ELSE Emit(g1, ReturnIf(IF g.valued THEN "v" ELSE "none"))

\* The break and continue variables are declared at the head of the body.
LoopVars(g) ==
  (IF Used(g, "break") THEN <<[op |-> "reset", flag |-> BreakVar(g)]>> ELSE <<>>)
    \o (IF Used(g, "continue") THEN <<[op |-> "reset", flag |-> ContinueVar(g)]>> ELSE <<>>)

Update(s) ==
  [i \in DOMAIN s.upd |-> [op |-> IF s.upd[i].k = "call" THEN "call" ELSE "event", id |-> s.upd[i].id]]

CompileLoop(g, s, at) ==
  LET n    == Len(g.scopes) + 1
      g1   == [Push(g, "block") EXCEPT !.scopes[n].depth = @ + 1]
      g2   == IF s.init = <<>> THEN g1 ELSE VarDecl(g1, s.init[1])
      head == g2.next
      next == g2.next + 1
      end  == g2.next + 2
      g3   == Emit([g2 EXCEPT !.next = @ + 3], <<Label(head)>> \o Test(s, end))
      body == CompileBlock([Push(g3, "loop") EXCEPT !.code = <<>>], s.body, <<>>,
                [kind |-> "loop", handled |-> FALSE, leave |-> end, next |-> next])
      g4   == Emit([Pop(body) EXCEPT !.code = g3.code \o LoopVars(body) \o body.code],
                <<Label(next)>> \o Update(s) \o <<Jump(head), Label(end)>>)
  IN  LoopEnd(g4)

\* The clean-up of a try body: an error that its statements left behind goes to
\* the switch, whose buffer is the last one again; otherwise drop that buffer.
TryData == <<LongjmpIf, BufDecrease>>

HandlerStart == <<BufDecrease, [op |-> "unset"]>>

RECURSIVE CompileHandlers(_, _, _, _)
CompileHandlers(g, handlers, at, label) ==
  IF handlers = <<>> THEN g
  ELSE LET h  == Head(handlers)
           g1 == Emit(g, <<Label(label)>> \o HandlerStart \o <<[op |-> "init", x |-> h.x]>>)
           g2 == CompileBlock(g1, h.body, <<[op |-> "free", x |-> h.x]>>, [at EXCEPT !.handled = FALSE])
       IN  CompileHandlers(Emit(g2, <<Jump(at.leave)>>), Tail(handlers), at, label + 1)

CompileTry(g, s, at) ==
  LET end   == g.next
      first == g.next + 1
      other == first + Len(s.handlers)
      in    == [at EXCEPT !.kind = "try", !.handled = TRUE, !.leave = end]
      cases == [e \in {s.handlers[i].on : i \in DOMAIN s.handlers} |->
                  first + (CHOOSE i \in DOMAIN s.handlers :
                             /\ s.handlers[i].on = e
                             /\ \A j \in 1 .. i - 1 : s.handlers[j].on # e) - 1]
      g1 == Emit([g EXCEPT !.next = other + 1], <<[op |-> "switch", cases |-> cases, to |-> other]>>)
      g2 == Pop(CompileBlock(Push(g1, "block"), s.body, TryData, in))
      g3 == CompileHandlers(Emit(g2, <<Jump(end)>>), s.handlers, in, first)
      g4 == Goto(Emit(g3, <<Label(other), BufDecrease>>))
  IN  Emit(g4, <<Label(end)>>)

CompileNode(g, s, last, at) ==
  CASE s.k = "expr"     -> Emit(g, <<[op |-> "event", id |-> s.id]>>)
    [] s.k = "call"     -> Emit(g, <<[op |-> "call", id |-> s.id]>>)
    [] s.k = "var"      -> VarDecl(g, s)
    [] s.k = "throw"    -> Throw(g, s)
    [] s.k = "if"       -> CompileIf(g, s, at)
    [] s.k = "loop"     -> CompileLoop(g, s, at)
    [] s.k = "try"      -> CompileTry(g, s, at)
    [] s.k = "break"    -> Break(g, last, at)
    [] s.k = "continue" -> Continue(g, last, at)
    [] s.k = "return"   -> Return(g, s, last, at)

\* _fnDeclInitErrorHandling, and free(pp): only a function of a program that
\* can throw has a parameter block here.
Params == 0    \* the parameter block, pp

FnCleanUp == <<[op |-> "free", x |-> Params], StackPop, LongjmpIf>>
FnStart   == <<[op |-> "init", x |-> Params], [op |-> "push"]>>

Outside == [kind |-> "fn", handled |-> FALSE, leave |-> 0, next |-> 0]

CompileFn(g, p) ==
  LET g1 == Push(g, "fn")
      g2 == IF p.throws THEN Add(Emit(g1, FnStart), FnCleanUp) ELSE g1
      g3 == CompileNodes(g2, p.body, 1, FALSE, Outside)
      val == IF p.valued /\ Used(g3, "value") THEN "v" ELSE "none"
  IN  Emit(g3, Gen(Current(g3)) \o <<[op |-> "ret", val |-> val]>>)

MainCleanUp == <<StackPop, [op |-> "exitIf"]>>

CompileMain(g, p) ==
  LET g1 == IF p.throws THEN Add(Emit(g, <<[op |-> "push"]>>), MainCleanUp) ELSE g
      g2 == CompileBlock(g1, p.body, <<>>, [Outside EXCEPT !.kind = "main"])
  IN  Emit(g2, Gen(Current(g2)) \o <<[op |-> "ret", val |-> "none"]>>)

Compile(p) ==
  LET g == Push([scopes |-> <<>>, next |-> 1, used |-> {}, code |-> <<>>,
                 throws |-> p.throws, valued |-> p.valued], "root")
  IN  IF p.main THEN CompileMain(g, p).code ELSE CompileFn(g, p).code
=============================================================================
