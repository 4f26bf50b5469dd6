----------------------------- MODULE Ownership -----------------------------
(***************************************************************************)
(* What the hand written C functions of the runtime (src/codegen-api) do   *)
(* with what they own: the strings they are given, the C strings, files,   *)
(* directories, handles and sockets they open, the jump buffers they push. *)
(* A function is a short program over these: it takes and drops resources, *)
(* may fail at a call of the system, goes to one of its clean-up labels,   *)
(* and ends in a return or in a longjmp to the buffer on top of err_state; *)
(* some calls that fail it does not test.  A call that only releases what  *)
(* was read or sent loses nothing when it fails, and does not fail here.   *)
(* The programs are the module SystemLibrary; this module runs them, one   *)
(* step at a time, over every outcome of every call.                       *)
(***************************************************************************)
EXTENDS SystemLibrary, Naturals, SequencesExt

CONSTANT MaxInput             \* pieces a file, directory or peer has to give

ASSUME InputAssumption == MaxInput \in Nat

VARIABLES fn,        \* the function that runs
          win,       \* whether it was compiled for Windows
          pc,        \* position in its program
          held,      \* the resources it is responsible for
          failed,    \* how often it called error_assign
          missed,    \* the calls of the system that failed without it
          frames,    \* its own jump buffers: the label each one leads to
          input,     \* pieces left to read or to write
          answers,   \* whether the peer of a socket takes and sends anything
          exit,      \* "running", "returned", "thrown", "crashed"
          misuse     \* resources released or handed on without being held

vars == <<fn, win, pc, held, failed, missed, frames, input, answers, exit, misuse>>

Here == Program[win][fn].steps[pc]
Target(label) == CHOOSE i \in DOMAIN Program[win][fn].steps :
                   Program[win][fn].steps[i] = Label(label)

Init ==
  /\ win \in BOOLEAN
  /\ fn \in Functions
  /\ held \in Program[win][fn].starts
  /\ input \in 0..MaxInput
  /\ answers \in BOOLEAN
  \* a peer that answers has something to give, one that does not has nothing
  /\ fn \in Networked => (answers <=> input > 0)
  /\ fn \notin Networked => answers
  /\ pc = 1 /\ failed = 0 /\ missed = {} /\ frames = <<>>
  /\ exit = "running" /\ misuse = {}

Goes(to) == pc' = to
Keeps == UNCHANGED <<fn, win, answers>>
Rest == UNCHANGED <<failed, missed, frames, input, exit>>

\* alloc and the calls that cannot fail: a resource taken twice is a block lost
Taking ==
  /\ Here.op = "take"
  /\ held' = held \cup Here.xs
  /\ misuse' = misuse \cup (held \cap Here.xs)
  /\ Goes(pc + 1) /\ Keeps /\ Rest

\* re_alloc of a block that may be NULL
Growing ==
  /\ Here.op = "grow"
  /\ held' = held \cup Here.xs
  /\ Goes(pc + 1) /\ Keeps /\ Rest /\ UNCHANGED misuse

\* free, str_free, fclose, close ...: what is not held is a double release
Dropping ==
  /\ Here.op = "drop"
  /\ held' = held \ Here.xs
  /\ misuse' = misuse \cup (Here.xs \ held)
  /\ Goes(pc + 1) /\ Keeps /\ Rest

\* free of a pointer that may be NULL
DroppingNullable ==
  /\ Here.op = "dropNullable"
  /\ held' = held \ Here.xs
  /\ Goes(pc + 1) /\ Keeps /\ Rest /\ UNCHANGED misuse

\* A value becomes part of another one.
Moving ==
  /\ Here.op = "move"
  /\ held' = (held \ Here.xs) \cup Here.ys
  /\ misuse' = misuse \cup (Here.xs \ held)
  /\ Goes(pc + 1) /\ Keeps /\ Rest

\* A call of the system that may fail: error_assign and a goto, or what it opens.
Checking ==
  /\ Here.op = "check"
  /\ \/ held' = held \cup Here.xs /\ Goes(pc + 1) /\ UNCHANGED failed
     \/ Goes(Target(Here.to)) /\ failed' = failed + 1 /\ UNCHANGED held
  /\ Keeps /\ UNCHANGED <<missed, frames, input, exit, misuse>>

Failing ==
  /\ Here.op = "fail"
  /\ Goes(Target(Here.to)) /\ failed' = failed + 1
  /\ Keeps /\ UNCHANGED <<missed, held, frames, input, exit, misuse>>

\* longjmp to the buffer on top: its own, or the one of a caller
Jumping(count) ==
  /\ failed' = count
  /\ IF frames = <<>> THEN exit' = "thrown" /\ UNCHANGED pc
     ELSE Goes(Target(frames[Len(frames)])) /\ UNCHANGED exit

\* error_assign with the longjmp behind it
Raising ==
  /\ Here.op = "raise"
  /\ Jumping(failed + 1)
  /\ Keeps /\ UNCHANGED <<missed, held, frames, input, misuse>>

\* if (fn_err_state->id != -1) longjmp
Rethrowing ==
  /\ Here.op = "rethrow"
  /\ IF failed > 0 THEN Jumping(failed) ELSE Goes(pc + 1) /\ UNCHANGED <<failed, exit>>
  /\ Keeps /\ UNCHANGED <<missed, held, frames, input, misuse>>

\* A call of another function of the runtime, which releases its arguments
\* and returns a value or throws.
Calling ==
  /\ Here.op = "call"
  /\ misuse' = misuse \cup (Here.xs \ held)
  /\ \/ held' = (held \ Here.xs) \cup Here.ys /\ Goes(pc + 1) /\ UNCHANGED <<failed, exit>>
     \/ held' = held \ Here.xs /\ Jumping(failed + 1)
  /\ Keeps /\ UNCHANGED <<missed, frames, input>>

\* A condition over the data, or over the outcome of a call that is no error.
Branching ==
  /\ Here.op = "maybe"
  /\ Goes(pc + 1) \/ Goes(Target(Here.to))
  /\ Keeps /\ Rest /\ UNCHANGED <<held, misuse>>

\* The conditions over what the function itself knows.
Testing ==
  /\ \/ Here.op = "label" /\ Goes(pc + 1)
     \/ Here.op = "goto" /\ Goes(Target(Here.to))
     \/ Here.op = "unless" /\ Goes(IF Here.xs \subseteq held THEN pc + 1 ELSE Target(Here.to))
     \/ Here.op = "ifFailed" /\ Goes(IF failed > 0 THEN Target(Here.to) ELSE pc + 1)
     \/ Here.op = "ifFine" /\ Goes(IF failed = 0 THEN Target(Here.to) ELSE pc + 1)
  /\ Keeps /\ Rest /\ UNCHANGED <<held, misuse>>

\* One more piece of a file, a directory or a socket, or none: it is at its
\* end, or the call that reads it has failed in the middle.
Feeding ==
  /\ Here.op = "feed"
  /\ \/ input > 0 /\ input' = input - 1 /\ Goes(pc + 1) /\ UNCHANGED missed
     \/ input = 0 /\ UNCHANGED input /\ Goes(Target(Here.to))
        /\ missed' \in {missed, missed \cup Here.ys}
  /\ Keeps /\ UNCHANGED <<held, failed, frames, exit, misuse>>

\* A call has failed, and nothing tells the caller ...
Missing ==
  /\ Here.op = "miss"
  /\ missed' = missed \cup Here.ys
  /\ Goes(pc + 1) /\ Keeps /\ UNCHANGED <<held, failed, frames, input, exit, misuse>>

\* ... or the program reads through the NULL that it returned.
Crashing ==
  /\ Here.op = "crash"
  /\ missed' = missed \cup Here.ys
  /\ exit' = "crashed"
  /\ Keeps /\ UNCHANGED <<pc, held, failed, frames, input, misuse>>

\* send and SSL_write in a loop until everything is written; SSL_write to a
\* peer that is gone returns 0, which the loop takes for progress.
Writing ==
  /\ Here.op = "write"
  /\ \/ /\ "ssl" \notin held \/ answers
        /\ \/ input > 0 /\ input' = input - 1 /\ UNCHANGED pc
           \/ input = 0 /\ Goes(pc + 1) /\ UNCHANGED input
        /\ UNCHANGED failed
     \/ Goes(Target(Here.to)) /\ failed' = failed + 1 /\ UNCHANGED input
  /\ Keeps /\ UNCHANGED <<missed, held, frames, exit, misuse>>

\* setjmp(error_buf_increase(..)), setjmp on the same buffer, error_buf_decrease
Framing ==
  /\ \/ Here.op = "frame" /\ frames' = Append(frames, Here.to)
     \/ Here.op = "reframe" /\ frames' = [frames EXCEPT ![Len(frames)] = Here.to]
     \/ Here.op = "unframe" /\ frames' = Front(frames)
  /\ Goes(pc + 1) /\ Keeps /\ UNCHANGED <<missed, held, failed, input, exit, misuse>>

\* The return: what it hands to the caller is no longer its own.
Returning ==
  /\ Here.op = "give"
  /\ exit' = "returned"
  /\ held' = held \ (Here.xs \cup Here.ys)
  /\ misuse' = misuse \cup (Here.xs \ held)
  /\ Keeps /\ UNCHANGED <<pc, failed, missed, frames, input>>

Step ==
  \/ Taking \/ Growing \/ Dropping \/ DroppingNullable \/ Moving
  \/ Checking \/ Failing \/ Raising \/ Rethrowing \/ Calling
  \/ Branching \/ Testing \/ Feeding \/ Missing \/ Crashing \/ Writing
  \/ Framing \/ Returning

Next == exit = "running" /\ Step

\* The code between two calls of the system is sequential C: it goes on.
Spec == Init /\ [][Next]_vars /\ WF_vars(Next)
-----------------------------------------------------------------------------
(* Type correctness of the state. *)
TypeOK ==
  /\ fn \in Functions /\ win \in BOOLEAN /\ answers \in BOOLEAN
  /\ pc \in DOMAIN Program[win][fn].steps
  /\ held \subseteq UNION {step.xs \cup step.ys : step \in Range(Program[win][fn].steps)}
  /\ misuse \subseteq UNION {step.xs : step \in Range(Program[win][fn].steps)}
  /\ failed \in Nat /\ input \in 0..MaxInput
  /\ exit \in {"running", "returned", "thrown", "crashed"}

(* Whatever fails and wherever a clean-up label is entered, nothing is     *)
(* released twice, released before it was opened, returned after it was    *)
(* released, or overwritten while it is held.                              *)
UsedRightly == misuse = {}

(* The caller goes on. *)
Left == exit \in {"returned", "thrown"}

(* Every way out of a function, a return or a longjmp out of any of its    *)
(* calls, has released what the function owned and did not hand on; the    *)
(* exceptions are exactly the known ones.                                  *)
OnlyKnownLeaks ==
  Left =>
    \/ held = {}
    \/ [fn |-> fn, win |-> win, exit |-> exit, what |-> held] \in KnownLeaks

(* Between its first call and its last, however it ends, a function of the *)
(* runtime uses only what it owns and keeps nothing of it.                 *)
OwnedRightly == UsedRightly /\ OnlyKnownLeaks

(* A function throws exactly when it has called error_assign. *)
ThrownIfFailed == Left => (exit = "thrown" <=> failed > 0)

(* A call of the system that fails without error_assign, in a function     *)
(* that returns all the same or ends the program, is one of KnownSilent.   *)
(* The caller then takes half of a file, of a directory or of a response   *)
(* for the whole, against src/src/api/fs:147, data that was never written  *)
(* for written, or a path that could not be asked about for a missing one. *)
OnlyKnownSilent ==
  exit \in {"returned", "crashed"} =>
    \A c \in missed : [fn |-> fn, win |-> win, exit |-> exit, call |-> c] \in KnownSilent

(* The first error is not overwritten by a second one: its message would   *)
(* be lost and its memory with it.                                         *)
FirstErrorKept == failed <= 1

(* The jump buffers a function pushed are popped when it leaves, and it is *)
(* the buffer of its caller that it jumps to.                              *)
FramesBalanced == Left => frames = <<>>

(* What error_assign reports gets to the caller, as the first error there  *)
(* was, in the frame the caller waits for it in; the failures that nothing *)
(* reports, which the caller takes for results, are none but KnownSilent.  *)
FailuresSurface ==
  TypeOK /\ ThrownIfFailed /\ OnlyKnownSilent /\ FirstErrorKept /\ FramesBalanced

(* With a peer that answers, every call ends: each loop reads or writes    *)
(* something that gets less, and no clean-up goes back.                    *)
Ends == answers ~> (exit # "running")
=============================================================================
