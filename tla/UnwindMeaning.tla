--------------------------- MODULE UnwindMeaning ---------------------------
(***************************************************************************)
(* What a block of statements means, independently of how it is compiled:  *)
(* which statements run, in which order, and how control leaves the block. *)
(*                                                                         *)
(* A meaning is a record [out, val, trace, choices]. out is "next" while   *)
(* control goes on, "break", "continue", "return", or the class of the     *)
(* error that is on its way to a handler. choices are the decisions that   *)
(* the run took and that are still to be consumed, oldest first.           *)
(***************************************************************************)
EXTENDS Integers, Sequences

Ran(m, id) == [m EXCEPT !.trace = Append(@, id)]
Out(m, out) == [m EXCEPT !.out = out]

\* Consume a decision: what a call does, or whether a condition holds.
Decision(m, default) == IF m.choices = <<>> THEN default ELSE Head(m.choices)
Decided(m) == IF m.choices = <<>> THEN m ELSE [m EXCEPT !.choices = Tail(@)]

\* A call that throws never returns to its statement.
Called(m, id, throws) ==
  LET m1 == Ran(m, id) IN IF throws THEN Out(Decided(m1), Decision(m1, "next")) ELSE m1

Evaluated(m, s, throws) == IF s.calls THEN Called(m, s.id, throws) ELSE m

RECURSIVE Means(_, _, _), MeansAll(_, _, _), Iterates(_, _, _)

\* The statements of a block, one after the other until control leaves it.
MeansAll(block, m, throws) ==
  IF block = <<>> \/ m.out # "next" THEN m
  ELSE MeansAll(Tail(block), Means(Head(block), m, throws), throws)

Iterates(s, m, throws) ==
  LET m1 == Evaluated(m, s, throws)
      m2 == MeansAll(s.body, Decided(m1), throws)
  IN  IF m1.out # "next" THEN m1
      ELSE IF Decision(m1, "no") = "no" THEN Decided(m1)
      ELSE IF m2.out = "break" THEN Out(m2, "next")
      ELSE IF m2.out \notin {"next", "continue"} THEN m2
      ELSE LET m3 == MeansAll(s.upd, Out(m2, "next"), throws)
           IN  IF m3.out # "next" THEN m3 ELSE Iterates(s, m3, throws)

Means(s, m, throws) ==
  CASE s.k = "expr"     -> Ran(m, s.id)
    [] s.k = "call"     -> Called(m, s.id, throws)
    [] s.k = "var"      -> Evaluated(m, s, throws)
    [] s.k = "throw"    -> LET m1 == Evaluated(m, s, throws)
                           IN  IF m1.out # "next" THEN m1 ELSE Out(Ran(m1, s.id), s.on)
    [] s.k = "if"       -> LET m1 == Evaluated(m, s, throws)
                           IN  IF m1.out # "next" THEN m1
                               ELSE MeansAll(IF Decision(m1, "no") = "yes" THEN s.body ELSE s.alt,
                                             Decided(m1), throws)
    [] s.k = "loop"     -> LET m1 == MeansAll(s.init, m, throws)
                           IN  IF m1.out # "next" THEN m1 ELSE Iterates(s, m1, throws)
    [] s.k = "try"      -> LET m1 == MeansAll(s.body, m, throws)
                               fit == {i \in DOMAIN s.handlers : s.handlers[i].on = m1.out}
                           IN  IF fit = {} THEN m1
                               ELSE MeansAll(s.handlers[CHOOSE i \in fit : \A j \in fit : i <= j].body,
                                             Out(m1, "next"), throws)
    [] s.k = "break"    -> Out(m, "break")
    [] s.k = "continue" -> Out(m, "continue")
    [] s.k = "return"   -> LET m1 == Evaluated(m, s, throws)
                           IN  IF m1.out # "next" THEN m1
                               ELSE [m1 EXCEPT !.out = "return", !.val = s.id]

Meaning(p, choices) ==
  MeansAll(p.body, [out |-> "next", val |-> 0, trace |-> <<>>, choices |-> choices], p.throws)
=============================================================================
