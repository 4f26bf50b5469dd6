# A verification project for The Programming Language

The repository is a compiler written in C++: it reads a program of The
Programming Language, builds a typed tree and prints a C program, together with
the part of a C runtime that the program needs. This directory holds TLA+
modules that model parts of the compiler and of the programs it generates, TLC
configurations that check them on small instances, and proofs that TLAPS checks
for every instance.

Paths below are relative to the repository: `src/src` is the compiler,
`src/test` are its tests and `src/src/api` the documentation of the language's
built-in types.

## 1. The system

```
 source text -> Reader -> Lexer -> Parser -> AST (+ VarMap, TypeMap) -> Codegen -> C text
                                                                          |
                 C runtime, copied on demand (codegen-api/*.cpp)  --------+
                                                                          v
                                                             the generated program
```

The compiler is one sequential thread; its passes call one another and share no
state except through the objects they pass on. The generated program is where
the concurrency is: a pool of threads runs async functions, each of which is a
job that is suspended and resumed.

### 1.1 Inventory

| component | state it keeps | operations | what is hard | what makes it correct |
|---|---|---|---|---|
| thread pool (`codegen-api/thread.cpp`) | `active`, the list `jobs`..`jobs_tail`, `alive_threads`, `working_threads`, three mutexes, two condition variables | init, add, insert, get, worker, wait, deinit, error_assign, error_assign_parent, job_step, job_deinit | `jobs` and `active` are read outside the lock that guards them; one signal wakes one thread; shutdown is a chain of wakeups | no job lost or run twice, no wakeup lost, wait returns at quiescence, the pool is freed last |
| async functions (`codegen/fn-decl.cpp`, `expr-await.cpp`, `expr-call.cpp`, `block.cpp`, `node-*.cpp`, `helpers.cpp`) | `job->step`, `job->parent`, the job's own `err_state_t`, its stack in `p` and `x` | spawn, await, resume, requeue, throw, catch, clean up, finish | from the moment a job is inserted another thread may run and free it; an error has to reach the caller before the caller runs again | an awaiting caller is resumed exactly once and sees the error of its callee |
| clean-ups (`CodegenCleanUp.cpp`, `block.cpp`, `node-loop/if/try/throw/return/break/continue.cpp`) | a stack of scopes, each with labels and flags (`b`, `c`, `r`, `v` variables) | add, currentLabel, gen, hasCleanUp; jumps between labels | break, continue, return and throw leave several scopes at once, `longjmp` is mixed with `goto` and `switch` | each heap variable is freed exactly once on every path; control goes where the language says |
| errors (`codegen-api/error.cpp`) | `err_state_t`: id, context, stack of calls, stack of jump buffers | push, pop, buf increase/decrease, assign, unset, clone | one state is copied between threads, with pointers in it | buffers and calls are balanced; an error is reported once |
| generated maps (`codegen/type-map.cpp`, `expr-map.cpp`) | `d`, `l`, `c` of each map | alloc, copy, free, get, has, set, remove, merge, clear, reserve, shrink, keys, values, eq | the capacity is remembered apart from the block; negative sizes | distinct keys in order of insertion, block as large as the capacity, one owner per block |
| generated arrays (`codegen/type-array.cpp`, `expr-array.cpp`) | `d`, `l` | at, push, pop, merge, concat, slice, remove, reverse, sort, filter, forEach, ... | clamping of signed and unsigned indexes, empty arrays, callbacks that change the array or throw | same as a mathematical sequence; every element owned once |
| generated objects, optionals, unions, functions, any (`type-obj/opt/union/fn/any.cpp`) | heap values and tags | alloc, copy, free, eq, realloc | who owns a value; recursive types | copies are deep, every block is freed once |
| strings and scalars (`codegen-api/str.cpp`, `buffer`, `byte`, `char`, `int`, `float`) | none | search, slice, trim, split, replace, parse | loop bounds, widths | agree with their documentation |
| path, url, request, fs, process, os, random, date | sockets, files, handles, jump buffers while a function runs | wrappers of system calls, one set of clean-up labels each | a call that fails between two others, partial reads, closed peers | each way out releases what is open, errors surface, calls end |
| Reader | text and a location | next, seek, eof, reset | line and column through seek | a location names one position of the text |
| Lexer, Token | the reader | next, whitespace, one function per token | ordered choice with backtracking | text is partitioned into tokens; the reader is restored on failure |
| Parser (`Parser*.cpp`) | the lexer | statements, expressions, types, comments | precedence and associativity by rewriting the tree | one tree per text |
| AST, type narrowing (`AST*.cpp`) | VarMap, TypeMap, type casts | hoisting, expressions, blocks | casts that hold only on one branch | a variable has the type the run time value has |
| types (`Type*.cpp`) | the registry of types | match, narrow, unify, create | recursive types, order of creation | match is reflexive and agrees with assignability |
| scopes (`VarMap.cpp`, `VarStack.cpp`) | variables with frames | save, restore, add, get, name, mark | functions added before their block, shadowing, names that are given back | a name refers, in the list and in the C text, to the variable it means |
| Codegen (`Codegen.cpp`, `codegen-api.hpp`, `codegen-metadata.hpp`, `codegen-ast/*`) | tree of C, builtins, runtime functions and entities that are switched on, link flags | one function per node, `_activateBuiltin`, `_activateEntity`, `_apiEval` | dependencies listed by hand, order of generated entities | the file holds all that it mentions, defined before it is used |
| C parser, errors, CLI, utilities | none to speak of | - | - | - |
| packages (`src/packages/*`) | - | - | ports and libraries written in the language itself | outside of this project |

How they interact: by calls in the compiler; in the generated program by shared
memory under the mutexes `lock1` (the counters and the global `err_state`),
`lock2` (the list of jobs) and `lock3` (the sleep of the workers), by the
condition variables `cond1` (main sleeps) and `cond2` (workers sleep), and by
the protocol on `job->step` and `job->parent` between an awaiting function and
the awaited one.

### 1.2 The plan

The order is by what is hardest to test. Done:

1. The pool: `ThreadPool`, `ThreadPoolInv`, `MCThreadPool`; what it promises,
   `JobPool`, and that it does, `ThreadPoolRefinement`.
2. The maps: `OrderedMap`, what they promise, `KeyedMap`, and that they do,
   `OrderedMapRefinement`.
3. What is proved of both: `JobPoolProofs`, `ThreadPoolProofs` (where threads and
   jobs are, wakeups, errors, deadlocks), `ThreadPoolRefinementProofs` (the threads
   implement `JobPool`) and `OrderedMapProofs`, over `IntervalLemmas` (counting in
   intervals, sets and sequences).
4. How scopes are left: `CleanUp` and `Unwind` print clean-ups, `UnwindRun` runs
   what is printed, `UnwindMeaning` is the meaning it must agree with.
5. The arrays: `Arrays`, the list that they promise to be, `ArrayList`, that
   they are (`ArraysRefinement`), their inductive invariants (`ArraysInv`) and the
   proofs (`ArraysProofs`).
6. The hand-written runtime: what its functions own, open and fail at
   (`SystemLibrary`, run by `Ownership`), and what they compute (`Strings`,
   `Urls`, called by `StringCalls`).
7. What is printed into a file: `Activation` over the catalogue `RuntimeApi` and
   the functions made for each type (`TypeEntities`); that the file is complete for
   every program, from facts of these tables (`ActivationInv`, `ActivationProofs`).
8. What a program does with values that own memory: `Values`.
9. The front end: `Narrowing`, `Types`, `Precedence` and `Scopes`, composed in
   `MCTyping`; that names mean one variable, for every program (`ScopesProofs`).

To do, in this order:

| module | models | abstract specification or reference | bounds | worth proving |
|---|---|---|---|---|
| `ErrState` | `err_state_t` with its two lists as pointers; the copy of the state at a spawn | one stack of calls and one of buffers per job | two jobs, depth 3 | the lists of two jobs never share a cell: they do today |
| `AsyncUnwind` | the async forms of block, loop, if, try, return and throw (`_blockAsync`, ...), steps of a job as labels, buffers filled before an await | `UnwindMeaning`, and `JobPool` for what suspends | the programs of `MCUnwind` with awaits, one job | nothing: recursive |
| `AsyncScopes` | variables of async functions as fields of one struct (`filterAsyncDeclarations`) | `Scopes` | three declarations, two awaits | - |
| `Reader`, `Lexer` | location and seek; ordered choice with backtracking | position in the text | texts of length 5 over four characters | after a failed token the location is what it was |
| `Statements` | the statements and types of the parser, with their errors | a grammar | ten tokens | - |

## 2. The modules and the code

The actions and operators carry the names of the C functions or of the C++
methods, and `PROJECT.json` gives for each of them the lines that it stands for.

### 2.1 ThreadPool

Variables: `active`, `alive`, `working`, `jobs` and `err_state` are the fields
`active`, `alive_threads`, `working_threads`, the list `jobs`..`jobs_tail` and
the program's `err_state`. `lock1..3` hold the owner of a mutex, `cond1..2` the
set of the threads that sleep on a condition variable. `pc`, `cur`, `tgt` and
`ret` are where a thread is, the job that it runs, the job that it is inserting
and where it goes afterwards. A job has `heap` (unused, live, freed), `parent`,
`step` and `errState`. `caught`, `hidden` and `mainCaught` are history variables
(the errors that a job's handler has caught, that another error overwrote in
`err_state`, and that a handler of main took from there), and `requeues` counts
for a bound.

One action is one critical section of the C code, or one access to a field that
other threads access without the lock. `active` and `jobs` are read by
`threadpool_worker` and `threadpool_wait` under a lock that does not guard them,
so those reads are actions of their own (`CheckActive`, `CheckJobs`, `Recheck`,
`Wait`). The race on them is a data race in C; the model takes each read as one
that returns the old or the new value.

The code of a generated async function is abstracted to what it does to jobs:
at each of its steps it may spawn a call (`Spawn`), await one (`Await`), put
itself back (`Yield`: a branch, a loop), throw, be in a handler (`Catch`,
`Handle`) or end (`Finish`). Local values do not appear.

So is a `main` that is not async, which runs beside the workers and has the global
`err_state` for its own: it adds jobs (`MainAdd`), throws (`MainThrow`), finds an
error in `err_state` at the end of a block or a try (`MainNotice`, which may be a
job's that arrived there meanwhile), and is then on its way out (`unwind`), until a
handler takes the error with `error_unset` (`MainCatch`, after which it goes on) or
none does (`MainUncaught`). Which try has which handler is left to choice;
`Unwind` has that. The copy that `threadpool_error_assign` makes of a job's whole
error state is the error only: that it brings the job's jump buffers and stack along
(so that a main which then leaves a try jumps with the buffers of a job) is not
modelled.

`JobPool` is the promise without threads: a job is ready, running, waiting or
gone. `ThreadPoolRefinement` reads the state of a job off the places where the
implementation keeps it, and `ImplementsJobPool`, in the run `pool_safety`, says that
every step of the threads is a step of `JobPool` or leaves it alone. What has
become of the program as a whole is its `outcome`, which a handler of main resets
(`Recover`).

### 2.2 OrderedMap

A map is its pairs in order, the capacity `c` that it remembers, the room that
its heap block has and whether its block pointer is NULL. `Set`, `Remove`,
`Assign` (`_copy` and then `_realloc`), `Clear`, `Reserve`, `Shrink` are one
action per C function; `_merge` is one action per iteration of its loop
(`MergeBegin`, `MergeStep`, `MergeFree`/`MergeEnd`), since each one looks at the
block again. `AsSize` is the conversion of an `int32_t` to `size_t`, with the
width scaled down to `SizeMod`. A write beyond the room ends in `status =
"crashed"`, an allocation that fails in `"exited"`: the program stops there, and
the runs of the map do not look for deadlocks for that reason.

`KeyedMap` is a function with an order of its keys. `OrderedMapRefinement` maps an
`OrderedMap` to it and also states that each operation is the abstract operation
of its name (`OperationsAgree`), which the step-wise refinement alone would not.
The map that a `_merge` is filling is seen as what the loop will have made of it
(`Merged`): the merge is one step when it begins, and its iterations are none. An
iteration that crashes leaves the map and what is still to be merged as they were.
Members of a list at some places, in their order, are `Chosen` (`Places`), by
counting and not by recursion, so that proofs can use it.

### 2.3 Unwind

`CleanUp` is the class `CodegenCleanUp`: a chain of scopes with items, each of
which is a run of clean-up statements behind a label. A generator is a record of
that chain, of the C statements printed so far and of the variables used. The
C++ code copies a scope into a local variable and points to it; here the chain
is a sequence and `Push` and `Pop` are the assignments to `state.cleanUp`.

`Unwind` prints: `CompileNodes` is the loop of `_block`, `BlockEnd` what `_block`
prints behind it, and `CompileIf`, `CompileLoop`, `CompileTry`, `Break`,
`Continue`, `Return`, `Throw`, `VarDecl`, `CompileFn`, `CompileMain` are
`_nodeIf` ... `gen`. Nested C statements are flattened: an if, a loop or a switch
is printed as branches to labels, and a C `break` or `continue` as a jump to the
place it means at that point of the text (`at.leave`, `at.next`). That place is
the point of the matter: inside the switch of a try, `break` means the switch.

`UnwindRun` runs the printed code with the stack of jump buffers and of calls
(`bufs`, `calls`: `error_buf_increase`, `error_buf_decrease`, `error_stack_push`,
`error_stack_pop`), the pending error (`err`: `error_assign`, `error_unset`), the
heap values that are live and the flag variables. A buffer is the place that
`setjmp` was called from; `longjmp` goes to the last one and leaves it on the
stack.

`UnwindMeaning` says what a block of statements means in the language, without
labels or jumps. It is not translated from the code: it is the specification.

### 2.4 ArrayList and Arrays

`Arrays` has one array variable of a program, `self`: a block of cells and a
length. A cell is a key (what the element is equal to) and the piece of memory
that the element owns; `heap` is which pieces and blocks are live and whether a
free went wrong. A method that calls nothing back is one action (`Ask` for those
that leave the array alone, `Push`, `Pop`, `Merge`, `RemoveIndex`, `Clear`,
`Assign`); `_sort`, `_filter` and `_forEach` are one action per callback, between
which the callback may change the variable itself (`MeddlePop`, ...) or throw
(`CallbackThrows`: the copy that is being walked is lost, which
`heap.lost` records). `_sort` exchanges neighbours over the
block, and looks at `d` and `l` again in each comparison. `Source` and `Built` are
the two local arrays such a loop has, the copy it goes over and what `_filter`
builds. A method that answers is given a copy of the variable, frees it, and the
caller frees the array it gets (`Makes`), so that `Ask` leaves the heap as it was.

The constants are assumed to be what the code makes them: a literal is a list of
keys (`ListsAssumption`; `MaxLen` bounds it, as it bounds every array), a
comparator returns an integer for every two keys (`ComparatorsAssumption`: it is a
function `fn (a: T, b: T) int`), and memory does not run out, for which five
arrays of the greatest length are enough (`MemoryAssumption`: the variable, two
copies and their concatenation; running out ends the program in `alloc`).

`ArrayList` is the promise: a list, questions about it (`Reply`), and calls that
go on over the list as it was. `Stop` are the calls after which nothing is
promised; `Arrays` reaches it in the three ways that `ImplementsArrayList` names.
`ArraysRefinement` maps one to the other: the list is the keys of the cells, and a
call in progress is what it goes over. `Keeps` says of `_filter` that what it has
kept is, in order and as often, what its callback accepted of what it was given.
`ArraysInv` has the inductive invariants that section 5 explains; they are proved,
and `MCArrays` can check the greater of them, `SortInv`, as one more `INVARIANT`.

### 2.5 SystemLibrary and Ownership

Each function of the runtime that opens, allocates, reads or can fail is a
program of about ten instructions over the resources it holds: take, drop, call
the system, check, go to a label, return, `error_assign`. `SystemLibrary` has
the programs, named as the C functions, with the differences of the platforms
under `win`; `Ownership` runs one of them with every outcome of every call, with
what it holds (`held`), the jump buffers it pushed (`frames`) and what it has
done wrong (`misuse`). What is read is a number of pieces, at most `MaxInput`.
`failed` counts the calls of `error_assign`. A call that fails and that the code does
not test goes on as if it had not (`Ignore`), ends a loop that reads (`FeedBy`), or
gives a NULL that is used (`Trust`); `missed` is which calls did so. Calls that only
release what was read or sent are taken to do so.

### 2.6 Strings, Urls and StringCalls

`Strings` has the algorithms on sequences of characters: the loops of
`str_contains`, `str_find`, `str_split`, `str_replace`, ... with their limits as
they are in C, `memcmp` past the end of a string included (`behind` is what lies
there), and the conversions of text to numbers with widths scaled to `Half` and
`Long`. `Urls` is `url_parse`: where each part begins and ends. `StringCalls` is
one call of any of them, and states beside each the definition that its answer
must agree with, which is what `src/src/api` says of the function, or its name where
that says nothing. The calls for which the code answers otherwise are named by
predicates on their arguments (`MissedAtEnd`, ...), and of them it is said what the
code returns instead.

### 2.7 Activation, RuntimeApi and TypeEntities

`Activation` is how `Codegen` decides what to print: a mention of a runtime
function, a type or a header switches it on with what it depends on, depth
first (`path` is the C++ call stack), and the end of `gen` prints headers,
macros, functions and entities in their order. `RuntimeApi` is the catalogue
`codegen-api.hpp` with `codegen-metadata.hpp`: what each function needs, as the
source lists it, beside what its text mentions. `TypeEntities` is what
`TypeMap` and the `_type*` functions create for each type, with dependencies;
the names of types are in `TypeNames`, which both it and `Activation` use.

`ActivationInv` states as assumptions what is true of the compiler's tables and
TLC evaluates when it starts the run (`NamesApart`, `NamesClosed`,
`EachComplete`, ...), and the inductive invariant over them. `MCActivation`
computes the distances and heights that the assumptions speak of.

### 2.8 Narrowing, Types, Precedence and Scopes

`Narrowing` walks a function as the compiler does, through ifs, elses,
assignments, calls and shadowing, with the two maps `typeCasts` (of the AST
builder, keyed by source text, and of Codegen, keyed by printed text) and,
beside them, the states the variables of the compiled program can be in.

`Types` is the table: create a type, declare one, look one up; `match`,
`matchNice`, `matchExact`, casts and the largest of two numbers as operators.

`Precedence` reads an expression one operator at a time (`ParseNext`) and keeps
the tree that the parser has so far; `wrapExpr` is `Parser::_wrapExpr`, the
descent through the last operands.

`Scopes` walks the blocks, functions and closures of a program with the list of
variables (`varMap`, a set of records whose ids are the order of the list), and
keeps beside it what each name means and what the C text declares. `Hoists` are
the lists of functions that a block may begin with. The names in one list are
assumed to be distinct (`HoistsAssumption`): of two functions of one name in one
block `_forwardNode` adds the first, and the language does not say which of them the
name should mean, so that there is nothing to compare with.

`MCTyping` composes the four: none reads the state of another, so each is
walked while the other three have not begun.

### 2.9 Values

`Values` runs programs of a few variables. `store` has the blocks and what they
hold, `frame` the C values of the variables: a number, the address of a block,
or, for functions, any and unions, what C keeps beside it. `genCopyFn`,
`genFreeFn`, `genEqFn` and `genStrFn` choose the function of a type as
`_genCopyFn` ... do, and `obj_copy`, `opt_free`, `union_eq`, ... are what
`type-*.cpp` prints for it. An assignment, a comparison, a print and the end of
the block are one action each: `exprAssign` is `_exprAssign` with the reads of
its right side (`nodeExpr`), the wrapping for the type of the left one
(`wrapNodeExpr`) and `_realloc`. `Places` are what an expression can name: a
variable, a field, or what is in an optional, a union or an any by `as` or by
narrowing.

`means` is the specification beside it, a tree for each variable: the language
has values and no addresses. `answer` is what the last comparison said, and what
it should have.

`MCValues` holds `StringCalls` and `Values`; neither reads the state of the
other.

## 3. What the runs check

Eleven runs pass and one expects a violation.

| run | question | bounds, and why they are enough |
|---|---|---|
| `pool_safety` | Is a job ever lost, run twice or freed in use? Is a wakeup lost, or an error before it reaches the program? Is the wait's return, or the end of the pool, early? Do the threads implement `JobPool`? | 2 workers, 3 calls, 2 requeues: a queue of several jobs with both workers asleep, a worker between each pair of locks, a chain of three awaits, two errors on their way to `err_state` with a throw and a catch of main between them. Spurious wakeups are on. |
| `pool_live` | Does the program end, and every await return? | 2 workers, 2 calls, 1 requeue, fairness of section 4. Deadlocks are looked for. |
| `pool_fair_queue` | Is a queued job served while the others yield for ever? | 2 workers and 3 jobs: one more job than workers. |
| `abstract_pool` | Are awaits one to one and without cycles in `JobPool` itself? | 4 jobs |
| `map` | Are keys distinct, blocks large enough and owned once, `_eq` what it should be? Is it a map that remembers the order of its keys? | 2 variables, 3 keys, 2 values, length up to 3: updates in place and behind, removal at the front, in the middle and at the end, merges of a map with itself, a longer and a shorter one, with and without common keys |
| `array` | Is it a list, whatever callbacks do to it? Is every element freed once? Does `_sort` sort, and end? | lists of up to 3 of 3 keys, equal ones among them; indexes from before the start to behind the end; a comparator that orders, one that finds all equal, one that is always greater, one that is circular; one change of the array by a callback in each call |
| `unwind` | Does control go where the language says, with everything freed once? Does every generated function end? | see below |
| `unwind_break_in_try` | the finding of section 3.1 | as `unwind`, one shape |
| `activation` | Does a file hold all that it mentions, before it is used? Does activation end? | one program for each of the runtime's functions, which mentions nothing else, and one for each type of a zoo (nested arrays and optionals, a map, unions, two objects that hold one another by arrays, functions, any), with and without errors, async or not. What two mentions need is the union of what each needs, so one at a time is enough. |
| `ownership` | Does each way out release what is open, exactly once? Which failures does the caller not see? Do calls end? | every function, on both platforms, with every outcome of every call; none, one or two pieces to read: an empty answer, a last piece, one with another behind it |
| `values` | Where do the functions on strings, paths, URLs and number texts give what is documented, and what do they give elsewhere? Do the functions generated for types keep values apart, free each block once and compare by meaning? | texts up to 4 over two characters with needles up to 2: overlapping matches, matches at both ends and none; two continuations of memory; numbers of a width of 4 and a long of 16, so that each overflow happens. Values: eight programs with a recursive object behind an optional, a union that may hold it, an object with a union and an any, references to an object, a string and an any, functions; two assignments, after which a value can be inside another of its own type, or come from a part of what it replaces |
| `typing` | Is what the compiler takes a name for what it can hold? Is a type asked for the type returned? Do operators group as precedence says? Does a name refer to the variable it means? | narrowing: a union of three, an optional, a captured one, conditions of up to 3 tests, 2 ifs in one another, one change. Types: an object and an enumeration of one name, an alias, one built-in, 2 types made of them, depth 2. Expressions: 3 operators, one of each level and direction. Scopes: 3 variables and functions, 4 blocks. |

The programs of `unwind` are functions with and without a value, `main`, and
functions of programs in which nothing throws. Each has a compound statement
(if, if-else, if-elif, loop, try with one or two handlers), or one compound
statement in another one, and inside it each way to leave (a call that may throw,
throw of a class that is handled or not, return, break, continue), with and
without heap variables in front at each level, initialised with and without a
call, and with and without calls behind; loops over a heap variable are there
with bodies that do not throw. Each program is run with every outcome of its
first 4 decisions (a call throws A, throws B or returns; a condition holds or
not). The clean-up scheme looks at a scope, at its parent and at the chain up to
the loop or function, so two levels below the function have every case of it; 4
decisions are enough for a second iteration of a loop that is then left by an
error.

A property that has several parts is a conjunction of named definitions, each
with its own comment:

| property | parts | says |
|---|---|---|
| `OnePlace` | | a live job is in the queue, in one worker's hands, in one insert, or below one child, and nowhere else |
| `QuiescentReturn` | | `threadpool_wait` returns only when no job is left, or on an error |
| `ErrorAccounted` | | an error that ended a job was caught by a job, is carried by a live one or has reached `err_state`, where main may catch it and another error may overwrite it |
| `NeverDeadlocked` | | some thread can always take a step, until the program has ended |
| `NobodyOverslept` | `WorkersWoken`, `WaitWoken`, `ShutdownWoken` | nobody sleeps while it is needed and nobody is about to wake it |
| `IInv` | `TInv`, `Placed`, ... | the inductive invariant of section 5 |
| `ImplementsJobPool` | | the threads do what `JobPool` promises |
| `Termination`, `AwaitReturns`, `QueuedIsServed` | | liveness of the program, of an await, of a queued job |
| `AwaitedOnce`, `NeverStuck` | | awaits are one to one; not all jobs await one another |
| `KeysDistinct` | | no key is in a map twice |
| `CapacitySafe` | `RoomUnlessCleared`, `MergeFits`, `CrashOnlyCleared` | the block has the room that the capacity says, unless it was just cleared, and that is the only way to crash |
| `BlocksOwned` | `TypeOK` and who holds which block | a block has one owner and no block is lost |
| `EqObservational` | | `_eq` is what the program can tell apart |
| `ImplementsKeyedMap`, `OperationsAgree` | | the map is a `KeyedMap`, operation by operation |
| `OwnedOnce` | | each element and block of the arrays is live, owned once and freed once |
| `AnswersAgree`, `ImplementsArrayList` | | methods answer and do what the list says, with the three exceptions named there |
| `SortSorts`, `CallsEnd` | | with a comparator that is consistent `_sort` ends in an ordered permutation; every call ends |
| `HeapExact` | `TypeOK`, `FreedOnce`, `NothingLeaks`, `NoCrash` | clean-ups run once for what is initialised, everything is freed when control leaves, buffers are there when they are used |
| `OnlyCleanUpWhilePending` | | between a throw and its handler clean-ups run and nothing else |
| `AgreesWithMeaning` | | the statements that ran, the way out and the value are those of the language |
| `Terminates` | | no clean-up jumps in a circle |
| `NoEndlessActivation` | | no item activates itself through others |
| `FileComplete` | `KnownNames`, `FileClosed`, `ErrorsDeclared`, `Links` | every name, header, macro and library that the file mentions is there |
| `EntitiesSettled` | `TypeOK`, `DefinedBeforeUse`, `EntitiesUnique`, `DefinitionCreatesNothing` | types are printed before what holds them, once, and printing makes no new ones |
| `OwnedRightly` | `UsedRightly`, `OnlyKnownLeaks` | nothing is released twice or used after; what is still held at the end is what `KnownLeaks` lists |
| `FailuresSurface` | `TypeOK`, `ThrownIfFailed`, `OnlyKnownSilent`, `FirstErrorKept`, `FramesBalanced` | what `error_assign` reports is thrown, the first error is the one, buffers are popped; a failure that nothing reports is one that `KnownSilent` lists |
| `Ends` | | with a peer that answers a call ends |
| `CallsAgree` | `TextsAgree`, `PathsAgree` | each function answers as documented, but for the named calls, of which it is said what they return |
| `TextsAgree` | `FindAgrees`, `ContainsAgrees`, `OrderAgrees`, `SliceAgrees`, `SplitAgrees`, `ReplaceAgrees`, `LinesAgree`, `TrimAgrees`, `EscapeReversible`, `ConvertsExactly` | strings agree with their definitions but for `MissedAtEnd`, `FoundBehind`, `OneAfterAnother`, `OneStartsOther`, `HoldsBackslash` and `WrapsRound` |
| `PathsAgree` | `PathSplits`, `ScanOrdered`, `UrlCut` | a path is its directory and its base, a directory is read in order, the parts of a URL are those of its text, if it is not `OutOfOrder` |
| `ValuesKept` | `OneOwner`, `MeaningKept`, `EqualWhenSame`, `NothingMisused` | a block has one owner until it is freed, a variable holds what it means whatever happens to others, `==` and `!=` compare what is meant, nothing is used after it was freed |
| `NarrowingSound` | `CastsOK`, `CastsHold`, `UnionsNarrowExactly` | a narrowed name holds a value of the narrowed type |
| `CastsAgree` | | the two maps of narrowed names say the same |
| `TypesDenote` | `TypesOK`, `CreatedAsAsked`, `StrictMeansSame`, `NumbersWiden` | a type asked for is the type returned, and a match means what it says |
| `ExpressionsPlaced` | `WellPlaced`, `TargetsAreAccesses`, `EmptyBodyFound` | operators group by precedence and direction |
| `ScopesAgree` | `NamesAgree`, `HeadersApart` | a name means one variable, in the list and in the C text |

### 3.1 Where the code is wrong

One run ends in a violation: `unwind_break_in_try`. `break` in a try in a loop
with nothing to clean up leaves the try only, and what is behind it runs before
the loop is left; a test of the repository expects it to leave the loop.

Other places where the code does something other than the property says are
exceptions of that property, each named at its definition and listed as a
hazard in `PROJECT.json` with its line. The runs hold with these exceptions and
fail without them:

- An error of a job that nobody catches can be lost. It is put into the one
  `err_state` that main uses for its own errors: a throw of main overwrites it
  (`hidden`), a handler of main takes it for its own (`mainCaught`). With two jobs, a
  throw of main after the error of a job has arrived, and a handler for it, the
  program ends as if nothing had failed. `ErrorAccounted` follows an error up to
  `err_state` and no further.
- `_clear` of a map keeps the capacity of a block that it frees
  (`CapacitySafe`); a map literal may repeat a key (`KeysDistinct`, with
  `DuplicateLiterals`).
- An error out of a loop over a heap value does not stop the statements behind
  it; a call that throws in a condition, return value, throw argument or loop
  header skips the clean-up of its function; a function without a clean-up of
  its own prints a return out of a block with one without the value. The
  programs of `unwind` have none of these.
- `_pop` of an empty array, `_merge` of nothing into an emptied one, and a
  comparator that shortens its array (`ImplementsArrayList`).
- Seven leaks of the hand-written runtime, three of them on Windows only
  (`KnownLeaks`).
- Failures that the caller does not see (`KnownSilent`). A `fread` or `readdir`
  that fails ends the loop as the end of the file or directory does, so that
  `fs_readFileSync` returns a part where `src/src/api/fs:147` promises the entire
  contents; so does `SSL_read`. `fclose` and `close` of what was written, `pclose`,
  `SSL_set_fd` and `SSL_set_tlsext_host_name`, and on Windows the calls that ask for
  the kind of a file or for a path, are not tested; `fs_existsSync`,
  `fs_isFileSync`, `fs_isDirectorySync` and `fs_isSymbolicLinkSync` say no of what they
  could not ask about. The NULL of `SSL_new` and of `getpwuid` is used.
- `contains` misses a text at the very end (`src/src/api/str:26`); `find` may answer
  a position near the end where the text is not, for it compares past the end
  (`src/src/api/str:33` says -1); `split` passes over a delimiter that follows a
  delimiter and leaves it in a piece (`src/src/api/str:71`); conversions to unsigned
  miss a minus behind a blank and return the number modulo the width of long; of a
  string and a longer one that it starts the comparisons may say anything; `escape`
  leaves backslashes alone; a URL's delimiters are found in a later part, which ends
  the program (`TextsAgree`, `UrlCut`).
- A block that is replaced through a reference is never freed; any, and functions
  in optionals, are compared by the address of their block, so that a copy
  differs; an object made without its union field holds a tag of no member, and
  printing it uses a string that was never set (`ValuesKept`).
- A narrowed name survives an assignment elsewhere and a variable of the same
  name; the else of `a && b` narrows both (`NarrowingSound`); a captured
  variable is narrowed in the AST only (`CastsAgree`).
- Types of one plain name from two scopes match strictly; matches through
  aliases are made with the operands exchanged (`TypesDenote`).
- String literals that are added to each other group to the right; `++f()`
  passes; the empty braces behind a prefix are not given back
  (`ExpressionsPlaced`).
- A variable of a try stays in the list of variables when the try has ended; a
  function of a name in use around it is not added; one can be called before the
  C text defines what it uses (`ScopesAgree`).

## 4. Fairness

`FairSpec` of the pool is weak fairness of the main thread and of each worker:
an operating system runs every thread that can run, and the code of a job has no
endless loop of its own (an async loop puts its job back at each iteration, that
is `Yield`). The choice of an action within a thread is not fair. Spurious
wakeups are off in the runs of liveness: with them on TLC would let a thread be
woken for ever, and they only ever make a thread test its condition again. In
`pool_fair_queue` jobs may yield for ever, which is the case the first in, first
out queue is there for.

`UnwindRun` has one thread that waits for nothing, so `WF_vars(Next)`. Loops end
since after `MaxChoices` decisions no condition holds; what `Terminates` shows is
that jumps of the clean-ups do not go in a circle.

`Arrays` has `WF_vars(Callback)`: a function that an array calls back returns or
throws. Whether the program calls another method is left open. `CallsEnd` is
stated for comparators that are consistent; with another one the `while (1)` of
`_sort` need not end.

`Ownership` has `WF_vars(Next)`: C goes on from one statement to the next, and a
call of the system returns. A peer that closes the connection before it answers
keeps the loops of `request_read` and `request_open` going, so `Ends` is stated
for one that answers (`answers`).

## 5. What is proved

For every number of workers, jobs and requeues, and every finite or infinite set
of keys and values; the constants are assumed to be what the named assumptions
say (a finite set of workers, `Main` not one of them; a finite set of variables;
`SizeMod` larger than any length; for arrays those of section 2.4). Eight modules
hold the proofs; `PROJECT.json` lists their results under `theorems`.

### 5.1 ThreadPool

`OnePlace`, `QuiescentReturn`, `NobodyOverslept` and `ErrorAccounted` are not
inductive. What makes them so is `IInv` (`ThreadPoolInv`), which TLC checks in
`pool_safety`. It has three parts, each inductive given those before it.

`Core` (`CoreHolds`):

- `TInv`: types, what a thread's local variables hold at its `pc`, and that the
  counters count: `alive` is the number of workers between their first and last
  critical section, `working` of those between `Busy` and `Idle`.
- `Placed`, until the pool is closed: each live job is in exactly one place, the
  queue has no duplicates, and a call is younger than the call that awaits it.
- `Drained`, nothing is queued in a closed pool; `AssignsError`, a worker at
  `threadpool_error_assign` has an error; and `QuiescentReturn` itself.

Each action moves one job from one place to another (`GetPlaces`, `InsertPlaces`,
`AwaitPlaces`, ...). Quiescence then follows from the youngest live job: it has
no younger child to wait for, so it is in the queue, in a worker or in an
insert; but at the return of the wait the queue is empty and no worker is
counted, hence no job is live (`QuietIsEmpty`). `OnePlace`, `PoolFreedLast` and the
types are corollaries.

`WakeInv`: where each sleeper will go on, which lock is held
from a test to the sleep that it leads to, and that nobody falls asleep any more
once the main thread sleeps in `threadpool_deinit`. With these a signal that finds
nobody asleep was not needed, and `NobodyOverslept` is inductive
(`NobodyOversleptHolds`).

`ErrorInv`, until the program ends with an error and drops what is queued: a job
that runs its body or awaits carries no error but one that had reached the program
when the state was copied to it (`RunsClean`, `AwaitsClean`), and the error that a job
ended with is carried by a job that has not ended, unless it was caught or has
reached the program (`LeavesItsError`). What has reached the program is in `err_state`,
`hidden` or `mainCaught` and stays in one of them, whatever main throws and catches.
The window that matters is between `threadpool_error_assign_parent` and the moment the
parent is queued: `HandsOver` is who stands in it. `ErrorAccounted` follows
(`ErrorAccountedHolds`).

`NeverDeadlockedHolds`: until the program has ended, some thread can take a step
without a spurious wakeup. If a lock is held, one of the owners can go: it does not
sleep, and the locks are taken in an order (`LockHolderGoes`). If all are free,
everybody who is awake can go (`AwakeGoes`), so it remains that main does not sleep
while all workers do. By `WakeInv` a worker that main waits for is awake: in
`threadpool_init` one that is starting, in `threadpool_wait` one that is working or
that will take what is queued, in `threadpool_deinit` one that will pass the
shutdown on (`SleeperIsServed`). It needs one worker at least, which the
assumption on `Workers` says.

`ThreadPoolRefinementProofs` proves `ImplementsJobPool` from `IInv`. The state of a job is read
off the places where it is (`StateOf`), and for each action of a thread there is a
lemma: it is a step of `JobPool` (`GetStarts`, `AwaitAwaits`, `EndFinishes`, ...) or
changes no part of what `JobPool` sees (`InsertIsInvisible`, ...). By it what `JobPoolProofs` shows of
`JobPool` is true of the threads: awaits are one to one and never form a cycle
(`AwaitsInThePoolHold`). `ImplementsJobPool` is safety only: `JobPool` states no fairness.

### 5.2 JobPool

`AwaitedOnce` by an invariant on parents; `NeverStuck` again from
the youngest job, over `IntervalLemmas` (an interval of numbers that is not
empty has a largest member with a property).

### 5.3 OrderedMap

`CapacitySafe` and `KeysDistinct`: `MapInv` adds to the properties that the pairs
still to be merged and those already there fit the room (`MergeOver`). There is
one lemma for each operation (`SetKeeps`, `RemoveKeeps`, `MergeStepKeeps`, ...).
`KeysDistinct` is proved from the assumption that literals do not repeat a key,
since a literal that does is stored as it is.

`BlocksOwned`: the number of blocks is the number of variables that have one and of
copies that a `_merge` holds; each operation changes at most one of these sets by
one member.

`EqObservational`: `_eq` compares two maps place by place, while a program looks a
value up by its key. The two agree since a key is at one place only, which is why
this theorem has the assumption of `KeysDistinct`.

`OperationsAgreeHold` and `ImplementsKeyedMapHolds`, with the same assumption (a list
that repeats a key is no function of its keys), for maps of any length. `_set`,
`_remove` and a literal change the list of pairs by an index, and their lemmas
(`KeyedUpdated`, `BoundWithout`, ...) say what that does to the list of keys and to
the function from them. For `_merge` the lemma is `MergedStep`: one iteration more and
one pair less to go leave `Merged` as it was. It has two cases, a key that is in the
map (`MergedStepInPlace`) and one that is not (`MergedStepAtEnd`), where the new
pair moves from the front of what will be appended to the end of what is there.
Neither would hold if a key could occur again later in the list that is gone over:
that the rest has no duplicates is a conjunct of `MapInv`. No induction over the list
is needed, since the loop's own steps are the induction. That a member of a list is
at the place where counting puts it is `EnumerationIsNth`: an increasing list of
numbers is the only one of its members. A step that crashes leaves the abstract map
alone, and so do `_reserve` and `_shrink`, which only move it.

### 5.4 Arrays

`IInv` (`ArraysInv`) says which arrays there are and that the heap is what they
own, no more: `Holds(h, e, a, s, b)` is the heap that one gets by putting the
variable and the two local arrays, each with memory that is not yet owned, on top
of nothing. Each method is then a few steps on that: it puts an array on top
(`MadeIs`), takes one away from any place, since the order does not matter
(`WithCommutes`, `FreedUndoes`), or changes one in place. That fresh memory is
there is counted (`RoomLeft`, `NthMember`). `OwnedOnceHolds` follows, with callbacks that
change the array under a loop or throw out of it.

`AnswersAgreeHold` says of each of the thirteen questions that the code's answer is the
list's (`Answered`), the clamping of indexes in `_slice` and `_at` included, and of
`_filter` that the positions of what it has kept are the positions of what its
callback accepts. `ImplementsArrayListHolds` has one lemma for each action, most of
them by what the call does to the keys of the array (`RemovedKeys`, ...).

`_sort` loops over the block until a pass swaps nothing, which no induction over
the length could follow across the steps of a program. `SortOnTrack` says what every
state of the loop has: the elements are those it began with, and two elements
whose order was exchanged were found to be in the wrong order (`InvertedRightly`;
a swap exchanges neighbours, so no other two are affected), and what a pass has
gone over without a swap is in order (`InOrder`). When the loop ends all neighbours
are in order; of two that are not, further apart, take the closest
(`OrderedThroughout`, from the smallest member of a set of numbers). Together with
`InvertedRightly` that is stability (`SortedIs`). `SortSortsHolds` is for a
comparator that is consistent and leaves the array alone, which is what `SortSorts`
says; `SortInvariantHolds` is for any comparator.

### 5.5 Activation

For every program that mentions only names that the compiler knows, and every set of
tables of which the assumptions of `ActivationInv` hold. They are facts of finite
tables, and TLC finds them true of the compiler's; what the provers add is the walk,
whose order and depth depend on what a program mentions.

`ActivationInvariant`, beside types: no name is unknown; a dependency of what is on is
itself on, or is still owed by an activation under way (`NothingForgotten`); among
names that are walked again although they are on, runtime functions and C symbols,
the height falls along the path (`PathDescends`); a header is on since something
asked for it (`NothingUncalledFor`). To have TLC check it as well, add it to
`MCActivation.cfg` as one more `INVARIANT`.

`NoEndlessActivationHolds` is `PathDescends`: if a runtime function is below itself on
the path and nothing between the two has a guard, its height is less than itself.
`FileCompleteHolds` is about the end of the walk. The assumption `EachComplete` says of
each name alone that what it reaches has all that its code mentions; that whatever
it reaches is on when the walk has ended is `ReachedIsSeen`: of the names that it
reaches and that were missed take the one at the least distance; what it was reached
from is nearer, hence on, and forgot it. `PartsPrintedHolds` is the half of
`DefinedBeforeUse` that depends on the walk, that what a struct holds is printed; that
it comes before, that names are unique, and that printing creates nothing, is true of
the table or not, whatever a program does, and stays with TLC.

### 5.6 Scopes

`ScopesAgreeHolds` is for every set of names, every set of function lists with
distinct names, and programs of any depth and length; `MaxDecls` and `MaxBlocks`
are any numbers. It is about `ScopesSpec`. The run `typing` takes its steps among
those of three other models, none of which changes a variable of this one.

The invariant, `ScopesInvariant` (at the head of `ScopesProofs`), hangs on ids: they grow
with the list and with the blocks, so that the block of a variable is the innermost
one whose `since` is below its id (`Of`). Its parts say that frames and functions
grow with the blocks (`BlockTypes`, `FramesFollow`), that a meaning is a variable in
the list and the newest of its name in its block has it, apart from the ones
named in section 3.1 (`MeantIsListed`, `ListedIsMeant`), that it is printed or about to be
(`MeantIsPrinted`), that no block prints a code name of a variable that was there before
(`PrintedAnew`), and what a function can see (`StacksFollow`).

Each action either adds behind what there is (`Grows`: a variable, the functions of
a block, a block with its parameter) or closes the innermost block (`Close`), and each
part is kept by these two kinds of step; what remains is one lemma for each action.
That a name is given a code name that is not taken is `FreshCode`: of one more
candidates than there are variables one is free. `ScopesInvariant` was checked with
TLC before it was proved, on `ScopesSpec` with six lists of functions, four
declarations and four blocks (1 362 780 states).

### 5.7 What is only model-checked

- Liveness under fairness, which these provers do not have: `Termination`,
  `AwaitReturns`, `QueuedIsServed`, `Terminates`, `Ends`, `CallsEnd`.
- What is computed by recursive operators over programs, conditions, types,
  expressions or values, in whose modules the provers cannot work: `HeapExact`,
  `OnlyCleanUpWhilePending`, `AgreesWithMeaning` (`Unwind` compiles a program by
  recursion over it, and every property is about the program that comes out),
  `ValuesKept`, `NarrowingSound`, `CastsAgree`, `TypesDenote`, `ExpressionsPlaced`. With
  recursive functions instead they would need an induction over the data, which is
  out of reach as well.
- `CallsAgree`: several of the loops are folds over a text, an induction over data
  again, and there is no step after a call that a proof would be about.
- `OwnedRightly` and `FailuresSurface`: the programs of `Ownership` are given and the
  run has all of them, so that a theorem would add the number of pieces read and
  nothing else.
- `EntitiesSettled`, but for the half that `PartsPrintedHolds` proves: the rest is a
  question about one finite table.

## 6. What is not modelled

- The async forms of the clean-ups, the pointers of `err_state` and the
  variables of async functions as fields of a struct (planned). Two hazards
  have no property for that reason and are listed without one: the copy of
  `err_state` at a spawn, and the characters of a response's headers. Of the
  writes that race for `err_state` (`thread.cpp:136`) the model has every order, each
  write being atomic; a torn copy, and the jump buffers that come with a job's copy,
  it does not have.
- Of the values: what a closure captures (its context is a block without
  content), references inside objects, an expression whose value is not used,
  and what C does when the operands of one call read and change the same
  variable, an order that C leaves open. Assignments and comparisons for which
  C refuses the generated text have no step: an any assigned to an optional any,
  two any compared.
- `Reader` and `Lexer`, and of the parser all but expressions: one pass over a
  text, where a model would be as long as the code. `(.Red)` in parentheses
  makes the parser read an optional that is empty (`Parser.cpp`, `_stmtExpr`);
  that was met in reading and no run shows it.
- The text of stack traces, print and all formatting; concatenation, buffers and
  floats; permissions and dates.
- Imports and hoisting in `Unwind`, where they clean up nothing; `return` in
  `main`, and empty blocks.
- `_reserve` of a negative size, which compares an `int32_t` with a `size_t`
  (`type-map.cpp:546`), is in `OrderedMap` (`AsSize`) and in no property of its
  own: the allocation fails and the program exits.
- The C parser, the command line and the packages: text, process start, and
  programs in the language itself.

## 7. Running

In this directory, `tlc -config MCUnwind.cfg MCUnwind.tla` and so on: the run's
module and configuration are in `PROJECT.json` under `runs`. A run whose `expect`
is `violation` ends with a counterexample. `tlapm ThreadPoolProofs.tla` checks a
module of proofs.
