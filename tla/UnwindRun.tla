----------------------------- MODULE UnwindRun -----------------------------
(***************************************************************************)
(* A run of the C code that Unwind prints for one of the programs, with    *)
(* the parts of err_state that it works on: the stack of jump buffers and  *)
(* the stack of calls. A statement of the program that the run executes is *)
(* appended to trace, a decision that the run takes to choices: whether a  *)
(* call throws and whether a condition holds. After MaxChoices decisions   *)
(* nothing throws and no condition holds, so that loops end.               *)
(*                                                                         *)
(* A function is called by code whose buffer is the only one at the start; *)
(* main starts without a buffer.                                           *)
(***************************************************************************)
EXTENDS Unwind, UnwindMeaning

CONSTANTS Kinds,       \* kinds of programs
          ProgramsOf(_),   \* the programs of a kind
          Errors,      \* classes of errors
          MaxChoices   \* decisions that are left open

ASSUME ErrorsAssumption == {"next", "break", "continue", "return"} \cap Errors = {}
ASSUME MaxChoicesAssumption == MaxChoices \in Nat

VARIABLES
  prog,      \* the program that runs
  code,      \* and its code
  pc,        \* the next statement of its code
  bufs,      \* err_state: buf_first .. buf_last, each with where it jumps to
  calls,     \* err_state: how many calls are on stack_first .. stack_last
  err,       \* err_state.id
  live,      \* values on the heap
  flags,     \* the b, c and r variables that are 1
  value,     \* the v variable, 0 while it was not assigned
  trace, choices, status

vars == <<prog, code, pc, bufs, calls, err, live, flags, value, trace, choices, status>>

NoError == "none"
Caller  == 0           \* a label outside of the code

Address(l) == CHOOSE n \in DOMAIN code : code[n].op = "label" /\ code[n].at = l
This == code[pc]
Throws == prog.throws
InitialBufs == IF prog.main THEN <<>> ELSE <<[cases |-> <<>>, to |-> Caller]>>

Init ==
  /\ \E kind \in Kinds : prog \in ProgramsOf(kind)
  /\ code = Compile(prog)
  /\ pc = 1
  /\ bufs = InitialBufs
  /\ calls = 0
  /\ err = NoError
  /\ live = {}
  /\ flags = {}
  /\ value = 0
  /\ trace = <<>>
  /\ choices = <<>>
  /\ status = "running"

At(op)   == status = "running" /\ This.op = op
Advance == pc' = pc + 1
GoTo(l)  == pc' = Address(l)

\* Take one of the options while decisions are left, the default otherwise.
Decide(options, default, taken) ==
  IF Len(choices) < MaxChoices THEN taken \in options /\ choices' = Append(choices, taken)
  ELSE taken = default /\ UNCHANGED choices

\* longjmp(buf_last->buf, e): the buffer stays on the stack.
Longjmp(e) ==
  IF bufs = <<>> THEN status' = "crashed" /\ UNCHANGED pc
  ELSE LET b == Last(bufs)
           l == IF e \in DOMAIN b.cases THEN b.cases[e] ELSE b.to
       IN  IF l = Caller THEN status' = "thrown" /\ UNCHANGED pc
           ELSE GoTo(l) /\ UNCHANGED status

Event ==
  /\ At("event")
  /\ trace' = Append(trace, This.id)
  /\ Advance
  /\ UNCHANGED <<prog, code, bufs, calls, err, live, flags, value, choices, status>>

\* A function that throws does so by error_assign and longjmp, whether it is
\* built in or the clean-up of a function like this one.
Call ==
  /\ At("call")
  /\ trace' = Append(trace, This.id)
  /\ UNCHANGED <<prog, code, bufs, calls, live, flags, value>>
  /\ \E taken \in Errors \union {"next"} :
       /\ IF Throws THEN Decide(Errors \union {"next"}, "next", taken)
          ELSE taken = "next" /\ UNCHANGED choices
       /\ IF taken = "next" THEN Advance /\ UNCHANGED <<err, status>>
          ELSE err' = taken /\ Longjmp(taken)

Branch ==
  /\ At("branch")
  /\ \E taken \in {"yes", "no"} :
       /\ Decide({"yes", "no"}, "no", taken)
       /\ IF taken = "yes" THEN Advance ELSE GoTo(This.to)
  /\ UNCHANGED <<prog, code, bufs, calls, err, live, flags, value, trace, status>>

InitVar ==
  /\ At("init")
  /\ live' = live \union {This.x}
  /\ Advance
  /\ UNCHANGED <<prog, code, bufs, calls, err, flags, value, trace, choices, status>>

Free ==
  /\ At("free")
  /\ live' = live \ {This.x}
  /\ Advance
  /\ UNCHANGED <<prog, code, bufs, calls, err, flags, value, trace, choices, status>>

SetFlag ==
  /\ At("set") \/ At("reset")
  /\ flags' = IF This.op = "set" THEN flags \union {This.flag} ELSE flags \ {This.flag}
  /\ Advance
  /\ UNCHANGED <<prog, code, bufs, calls, err, live, value, trace, choices, status>>

SetValue ==
  /\ At("value")
  /\ value' = This.id
  /\ Advance
  /\ UNCHANGED <<prog, code, bufs, calls, err, live, flags, trace, choices, status>>

Holds(flag) == IF flag = Pending THEN err # NoError ELSE flag \in flags

Jumps ==
  /\ \/ At("label") /\ Advance
     \/ At("jump") /\ GoTo(This.to)
     \/ At("jumpIf") /\ IF Holds(This.flag) THEN GoTo(This.to) ELSE Advance
  /\ UNCHANGED <<prog, code, bufs, calls, err, live, flags, value, trace, choices, status>>

\* setjmp(error_buf_increase()) or setjmp(buf_last), the second of which
\* replaces what the last buffer holds.
Setjmp ==
  /\ At("setjmp") \/ At("switch")
  /\ LET b == [cases |-> IF This.op = "switch" THEN This.cases ELSE <<>>, to |-> This.to]
     IN  bufs' = Append(IF This.op = "switch" \/ This.new THEN bufs ELSE Front(bufs), b)
  /\ Advance
  /\ UNCHANGED <<prog, code, calls, err, live, flags, value, trace, choices, status>>

BufDec ==
  /\ At("bufdec")
  /\ IF bufs = <<>> THEN status' = "crashed" /\ UNCHANGED <<pc, bufs>>
     ELSE Advance /\ bufs' = Front(bufs) /\ UNCHANGED status
  /\ UNCHANGED <<prog, code, calls, err, live, flags, value, trace, choices>>

Unset ==
  /\ At("unset")
  /\ err' = NoError
  /\ Advance
  /\ UNCHANGED <<prog, code, bufs, calls, live, flags, value, trace, choices, status>>

Raise ==
  /\ At("raise")
  /\ err' = This.on
  /\ trace' = Append(trace, This.id)
  /\ Advance
  /\ UNCHANGED <<prog, code, bufs, calls, live, flags, value, choices, status>>

LongjmpPending ==
  /\ At("longjmpIf")
  /\ IF err = NoError THEN Advance /\ UNCHANGED status ELSE Longjmp(err)
  /\ UNCHANGED <<prog, code, bufs, calls, err, live, flags, value, trace, choices>>

StackPush ==
  /\ At("push")
  /\ calls' = calls + 1
  /\ Advance
  /\ UNCHANGED <<prog, code, bufs, err, live, flags, value, trace, choices, status>>

StackDrop ==
  /\ At("pop")
  /\ calls' = calls - 1
  /\ Advance
  /\ UNCHANGED <<prog, code, bufs, err, live, flags, value, trace, choices, status>>

\* The end of main: an error that nobody handled ends the program.
ExitPending ==
  /\ At("exitIf")
  /\ IF err = NoError THEN Advance /\ UNCHANGED status
     ELSE status' = "thrown" /\ UNCHANGED pc
  /\ UNCHANGED <<prog, code, bufs, calls, err, live, flags, value, trace, choices>>

Ret ==
  /\ At("ret") \/ At("retIf")
  /\ IF This.op = "retIf" /\ ReturnVar \notin flags
       THEN Advance /\ UNCHANGED <<status, value>>
       ELSE /\ status' = "returned"
            /\ value' = IF This.val = "v" THEN value ELSE 0
            /\ UNCHANGED pc
  /\ UNCHANGED <<prog, code, bufs, calls, err, live, flags, trace, choices>>

Next ==
  \/ Event \/ Call \/ Branch \/ InitVar \/ Free \/ SetFlag \/ SetValue \/ Jumps \/ Setjmp
  \/ BufDec \/ Unset \/ Raise \/ LongjmpPending \/ StackPush \/ StackDrop \/ ExitPending \/ Ret

\* One thread, nothing it waits for: it goes on as long as it can.
Spec == Init /\ [][Next]_vars /\ WF_vars(Next)
-----------------------------------------------------------------------------
Ended == status # "running"

\* The variables hold what they can hold.
TypeOK ==
  /\ pc \in DOMAIN code
  /\ \A i \in DOMAIN bufs :
       bufs[i].to \in {code[n].at : n \in {n \in DOMAIN code : code[n].op = "label"}} \union {Caller}
  /\ calls \in 0 .. 1
  /\ err \in Errors \union {NoError}
  /\ status \in {"running", "returned", "thrown", "crashed"}

\* The generated code never frees a value that it does not hold, and never
\* initialises a variable whose previous value it has not freed, whatever
\* break, continue, return or error took it there.
FreedOnce ==
  /\ At("free") => This.x \in live
  /\ At("init") => This.x \notin live

\* When control leaves the function, every value is freed, the buffers are
\* those of the caller and the call is off the stack: what valgrind checks in
\* the tests of the generated programs (CodegenTest.cpp).
NothingLeaks == Ended => live = {} /\ bufs = InitialBufs /\ calls = 0

\* There is a buffer wherever one is jumped to or dropped.
NoCrash == status # "crashed"

\* The function keeps the account of what it holds: every value is freed once,
\* on every way out, and every buffer it jumps to or drops is there.
HeapExact == TypeOK /\ FreedOnce /\ NothingLeaks /\ NoCrash

\* From the moment an error is thrown until a handler takes it, clean-ups run
\* and nothing else: no statement of the program, no test, no second error.
OnlyCleanUpWhilePending ==
  status = "running" /\ err # NoError =>
    This.op \notin {"event", "call", "branch", "init", "value", "raise", "setjmp", "switch", "set"}

\* The statements that ran, in their order, the way control left the function,
\* and the value that it returned are those that the language defines.
AgreesWithMeaning ==
  Ended =>
    LET m == Meaning(prog, choices)
    IN  /\ trace = m.trace
        /\ status = IF m.out \in Errors THEN "thrown" ELSE "returned"
        /\ m.out \in Errors => err = m.out
        /\ m.out = "return" /\ prog.valued => value = m.val

\* Every run leaves the function: no jump of the clean-ups goes in a circle.
Terminates == <>Ended
=============================================================================
