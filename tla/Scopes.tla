------------------------------- MODULE Scopes -------------------------------
(***************************************************************************)
(* What a name refers to.  The AST builder keeps one list of variables     *)
(* (VarMap): a block opens a frame and erases it when it ends, functions   *)
(* of a block are added before its statements, and every variable gets a   *)
(* code name that no variable of the list has.  A function is printed as a *)
(* C function of its own, which gets what it uses of its surroundings as   *)
(* pointers of the same names: the list of what could be used is taken     *)
(* before its frame is opened (VarStack).                                  *)
(*                                                                         *)
(* The machine walks a program as the AST builder does and keeps beside    *)
(* the list what each name means, block by block (env), and what the C     *)
(* text declares, block by block (printed).  A C compiler reads a text     *)
(* once, so that what is printed later cannot be referred to yet.          *)
(*                                                                         *)
(* Types, methods, imports and async functions, which have their variables *)
(* in a struct, are left out; so are variables that are called like the    *)
(* path of a function.                                                     *)
(***************************************************************************)
EXTENDS Naturals, Sequences, FiniteSets, SequencesExt, FiniteSetsExt, Functions

CONSTANTS
  Idents,      \* names of variables and parameters
  Hoists,      \* functions of a block: [name, group], other statements come between two groups
  MaxDecls,    \* bound on the variables and functions of the program
  MaxBlocks    \* bound on the blocks inside one another

\* Blocks that have two functions of one name are not looked at.
ASSUME HoistsAssumption ==
  \A h \in Hoists : /\ h \in Seq([name : {h[i].name : i \in DOMAIN h}, group : Nat])
                   /\ \A i, j \in DOMAIN h : h[i].name = h[j].name => i = j

VARIABLES
  varMap,      \* VarMap::_items: [name, code, frame, id], the ids in the order of the list
  blocks,      \* the open blocks: [kind, frame, fn, since, env, printed, todo, at]
  stacks,      \* the code names in the VarStack of each function that is walked
  strays,      \* ids of variables that are known to be out of place
  decls        \* ids given

scvars == <<varMap, blocks, stacks, strays, decls>>

NoParam == "none"
NoVar == 0

-----------------------------------------------------------------------------
(* VarMap and VarStack. *)

has(its, n) == \E v \in its : v.name = n
get(its, n) == IF has(its, n) THEN Max({v.id : v \in {w \in its : w.name = n}}) ELSE NoVar

name(its, n) ==
  <<n, Min({k \in 0..Cardinality(its) : \A v \in its : v.code # <<n, k>>})>>

restore_Last(its, frame) == {v \in its : v.frame # frame \/ \E w \in its : w.id > v.id}
restore(its, frame) == {v \in its : v.frame # frame}

Var(n, code, frame, id) == [name |-> n, code |-> code, frame |-> frame, id |-> id]
varStack(its) == {v.code : v \in its}

\* The code name of a function has the name of its alias type, of which there is one each.
FnCode(fn) == <<fn.name, "fn", fn.id>>

\* AST::_forwardNode: a function is added unless a variable has its name, in whatever block.
Forward(its, fns, frame) ==
  its \union {Var(fn.name, FnCode(fn), frame, fn.id) : fn \in {f \in Range(fns) : ~ has(its, f.name)}}

Taken(its, fns) == {fn.id : fn \in Range(fns)} \ {v.id : v \in its}

-----------------------------------------------------------------------------
(* Blocks. *)

\* What is declared in f hides what g has of the same name.
Over(f, g) == [x \in DOMAIN f \union DOMAIN g |-> IF x \in DOMAIN f THEN f[x] ELSE g[x]]
Only(x, id) == [y \in {x} |-> id]
NoNames == [y \in {} |-> NoVar]

\* The functions of a block with their ids, which follow `from`.
Numbered(h, from) == [i \in DOMAIN h |-> [name |-> h[i].name, group |-> h[i].group, id |-> from + i]]
Meaning(fns) == [n \in {fn.name : fn \in Range(fns)} |-> (CHOOSE fn \in Range(fns) : fn.name = n).id]

\* Its frame (a try opens none, AST::_node), the function it is a block of, as its place in stacks,
\* the ids that were given before it, what names mean, what the C text declares, the functions ahead
Opened(kind, frame, fn, since, env, printed, todo) ==
  [kind |-> kind, frame |-> frame, fn |-> fn, since |-> since, env |-> env, printed |-> printed,
   todo |-> todo, at |-> "statements"]

Innermost == Last(blocks)
Depth == Len(blocks)
Replaced(block) == Append(Front(blocks), block)

ScopesInit ==
  /\ varMap = {} /\ stacks = <<{}>> /\ strays = {} /\ decls = 0
  /\ blocks = <<Opened("root", 1, 1, 0, NoNames, NoNames, <<>>)>>

\* AST::_block behind what opened it, in a frame of its own unless it is a try: `its` are the
\* variables, `parent` the block around it
Open(kind, parent, its, own, printed, h, from) ==
  LET fns == Numbered(h, from)
      frame == IF kind = "try" THEN Innermost.frame ELSE Innermost.frame + 1
      fn == IF kind = "fn" THEN Innermost.fn + 1 ELSE Innermost.fn
      new == Forward(its, fns, frame)
  IN /\ Depth < MaxBlocks /\ from + Len(fns) <= MaxDecls
     /\ blocks' = Append(Replaced(parent),
                         Opened(kind, frame, fn, decls, Over(Meaning(fns), own), printed, fns))
     /\ varMap' = new
     /\ strays' = strays \union Taken(new, fns)
     /\ decls' = from + Len(fns)

Spoken == [Innermost EXCEPT !.at = "statements"]

DeclareVar(n) ==
  LET id == decls + 1
      code == name(varMap, n)
  IN /\ Innermost.at # "group" /\ id <= MaxDecls
     /\ varMap' = varMap \union {Var(n, code, Innermost.frame, id)}
     /\ blocks' = Replaced([Spoken EXCEPT !.env = Over(Only(n, id), @), !.printed = Over(Only(code, id), @)])
     /\ decls' = id
     /\ UNCHANGED <<stacks, strays>>

\* The body of an if, an else, a loop or of main, and that of a try
OpenBlock(kind, h) ==
  /\ Innermost.at # "group"
  /\ Open(kind, Spoken, varMap, NoNames, NoNames, h, decls)
  /\ UNCHANGED stacks

\* The body of a function that has a parameter
OpenWith(parent, p, h) ==
  LET id == decls + 1
      code == name(varMap, p)
  IN Open("fn", parent, varMap \union {Var(p, code, Innermost.frame + 1, id)}, Only(p, id), Only(code, id), h, id)

\* A function: its stack, its frame, its parameter and its body.  The functions of a group are
\* printed before the first of them is given what it uses (Codegen::_block).  One whose name was
\* taken is not walked: the other variable is then taken for it (AST::_node).
Together(fns) == {fn \in Range(fns) : fn.group = fns[1].group}
OpenFn(p, h) ==
  LET todo == Innermost.todo
      rest == Tail(todo)
      group == [code \in {FnCode(fn) : fn \in Together(todo)} |-> code[3]]
      parent == [Innermost EXCEPT
                   !.printed = IF Innermost.at = "group" THEN @ ELSE Over(group, @),
                   !.todo = rest,
                   !.at = IF rest # <<>> /\ rest[1].group = todo[1].group THEN "group" ELSE "behind"]
  IN /\ todo # <<>> /\ Innermost.at # "behind"
     /\ get(varMap, todo[1].name) = todo[1].id
     /\ stacks' = Append(stacks, varStack(varMap))
     /\ IF p = NoParam THEN Open("fn", parent, varMap, NoNames, NoNames, h, decls) ELSE OpenWith(parent, p, h)

\* A closure, in any statement
OpenClosure(p, h) ==
  /\ Innermost.at # "group"
  /\ stacks' = Append(stacks, varStack(varMap))
  /\ OpenWith(Spoken, p, h)

Close ==
  /\ Depth > 1 /\ Innermost.todo = <<>> /\ Innermost.at # "group"
  /\ blocks' = Front(blocks)
  /\ varMap' = IF Innermost.kind = "try" THEN varMap ELSE restore(varMap, Innermost.frame)
  /\ stacks' = IF Innermost.kind = "fn" THEN Front(stacks) ELSE stacks
  /\ strays' = IF Innermost.kind = "try" THEN strays \union Range(Innermost.env) ELSE strays
  /\ UNCHANGED decls

ScopesNext ==
  \/ \E n \in Idents : DeclareVar(n)
  \/ \E h \in Hoists :
       \/ \E kind \in {"block", "try"} : OpenBlock(kind, h)
       \/ \E p \in Idents \union {NoParam} : OpenFn(p, h)
       \/ \E p \in Idents : OpenClosure(p, h)
  \/ Close
ScopesSpec == ScopesInit /\ [][ScopesNext]_scvars

-----------------------------------------------------------------------------
(* Every name at every place. *)

Meant(n) ==
  LET depth == {b \in DOMAIN blocks : n \in DOMAIN blocks[b].env}
  IN IF depth = {} THEN NoVar ELSE blocks[Max(depth)].env[n]

\* What a code name refers to in the text of function f, if the text declares it
PrintedAs(f, code) ==
  LET own == {b \in DOMAIN blocks : blocks[b].fn = f /\ code \in DOMAIN blocks[b].printed}
  IN IF own = {} THEN NoVar ELSE blocks[Max(own)].printed[code]

\* Functions of which nothing has been printed yet
Ahead(b) == {fn.id : fn \in IF b.at = "group" THEN Range(b.todo) \ Together(b.todo) ELSE Range(b.todo)}
Early == UNION {Ahead(blocks[i]) : i \in DOMAIN blocks}

\* The variable of a name is printed in one of the functions that are walked, and all of
\* those inside of it can get it from there: it is in their stacks and not hidden.
Reached(v) ==
  \E f \in DOMAIN stacks :
    /\ PrintedAs(f, v.code) = v.id
    /\ \A g \in f + 1..Len(stacks) : v.code \in stacks[g] /\ PrintedAs(g, v.code) = NoVar

\* A name refers to what it means, in the list of variables and in the C text,
\* however blocks, functions and closures are put into one another and whatever
\* they have the names of.  Three things are left out: a variable declared in a
\* try stays in the list when the try has ended, where the text has it no more
\* (AST.cpp:1122); a function of a name that is in use around it is not added
\* (546); and one can be used in front of the group that it is printed with, as
\* its block has it from the start (codegen/block.cpp:58).
NamesAgree ==
  \A n \in Idents \union {fn.name : fn \in UNION {Range(b.todo) : b \in Range(blocks)}} :
    LET got == get(varMap, n)
    IN \/ {Meant(n), got} \intersect strays # {}
       \/ /\ got = Meant(n)
          /\ \A v \in varMap : v.id = got => got \in Early \/ Reached(v)

\* A function never declares a name that it may get from around it.
HeadersApart ==
  \A b \in DOMAIN blocks : DOMAIN blocks[b].printed \intersect stacks[blocks[b].fn] = {}

ScopesAgree == NamesAgree /\ HeadersApart
=============================================================================
