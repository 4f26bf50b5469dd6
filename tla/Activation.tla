---- MODULE Activation ----
(* How the code generator decides what to print. While it translates a       *)
(* program it mentions names: C symbols, runtime functions, generated        *)
(* functions and types. Each mention switches on what the name depends on,   *)
(* depth first, and the printed file is made of what ended up on: headers,   *)
(* builtin structs, structs, declarations, functions and linker flags        *)
(* (Codegen::_, _activateBuiltin, _activateEntity and the end of gen).       *)
EXTENDS TypeNames, TLC

CONSTANTS Programs,      \* records [mentions, async, throws]: what a program mentions
          Runtime,       \* Codegen::api: what the runtime offers (RuntimeApi, Api)
          HeadersOf,     \* what each C symbol is declared in (RuntimeApi, SymbolHeaders)
          Entities       \* Codegen::entities: the Catalogue, by whether the program throws

VARIABLES program,       \* the program being generated
          todo,          \* its mentions still to come
          path,          \* the activations under way, each with the dependencies it has not reached
          on,            \* what is switched on: builtins, api[..].enabled, entity.active
          flags,         \* the linker flags
          unknown        \* names nothing is known about ("tried activating unknown ...")
vars == <<program, todo, path, on, flags, unknown>>

\* ---------------------------------------------------------------- builtins
Flag(os, lib) == [os |-> os, lib |-> lib]
OpenSsl == {Flag("A", "-lssl"), Flag("A", "-lcrypto"), Flag("W", "-lws2_32"), Flag("W", "-lgdi32"),
            Flag("W", "-ladvapi32"), Flag("W", "-lcrypt32"), Flag("W", "-luser32")}

\* The headers printed under #ifndef and under #ifdef THE_OS_WINDOWS (Codegen.cpp:603-640)
UnixHeaders == {"libArpaInet", "libDirent", "libFcntl", "libNetdb", "libNetinetIn", "libPthread", "libPwd",
                "libSysSocket", "libSysSyscall", "libSysUtsname", "libUnistd"}
WindowsHeaders == {"libWinDirect", "libWinIo", "libWinWs2tcpip", "libWindows", "libWinsock2"}
PlainHeaders == {"libCtype", "libErrno", "libFloat", "libInttypes", "libMath", "libOpensslRand", "libOpensslSsl",
                 "libSetJmp", "libStdNoReturn", "libStdarg", "libStdbool", "libStddef", "libStdint", "libStdio",
                 "libStdlib", "libString", "libSysStat", "libSysTypes", "libTime"}
Structs == <<"typeAny", "typeBuffer", "typeErrBuf", "typeErrStack", "typeErrState", "typeRequest", "typeStr",
             "typeThreadpoolCond", "typeThreadpoolMutex", "typeThreadpool", "typeThreadpoolFunc",
             "typeThreadpoolJob", "typeThreadpoolThread", "typeWinReparseDataBuffer">>
Variables == {"varEnviron", "varErrState", "varLibOpensslInit", "varLibWs2Init"}
Builtins == {"definitions", "externSystemFunction036"} \cup UnixHeaders \cup WindowsHeaders \cup PlainHeaders
            \cup ToSet(Structs) \cup Variables

\* What switching a builtin on switches on
PullsOfTypes ==
  [typeAny |-> {"libStdlib"}, typeBuffer |-> {"libStdlib"}, typeErrBuf |-> {"libSetJmp"}, typeErrStack |-> {},
   typeErrState |-> {"typeErrBuf", "typeErrStack"},
   typeRequest |-> {"definitions", "libOpensslSsl", "libWinsock2"}, typeStr |-> {"libStdlib"},
   typeThreadpool |-> {"libStdbool", "threadpool_cond_t", "threadpool_job_t", "threadpool_mutex_t", "threadpool_thread_t"},
   typeThreadpoolCond |-> {"definitions", "libPthread", "libWindows"},
   typeThreadpoolFunc |-> {"threadpool_t", "threadpool_job_t"}, typeThreadpoolJob |-> {"threadpool_func_t"},
   typeThreadpoolMutex |-> {"definitions", "libPthread", "libWindows"},
   typeThreadpoolThread |-> {"definitions", "libPthread", "libWindows", "threadpool_t"},
   typeWinReparseDataBuffer |-> {"definitions", "libWindows"},
   varEnviron |-> {"libUnistd"}, varErrState |-> {"libStdlib", "typeErrState"},
   varLibOpensslInit |-> {"libStdbool"}, varLibWs2Init |-> {"libStdbool"}]
Pulls(b) == IF b \in DOMAIN PullsOfTypes THEN PullsOfTypes[b]
            ELSE IF b \in UnixHeaders \cup WindowsHeaders \cup {"externSystemFunction036"} THEN {"definitions"}
            ELSE {}

FlagsOf(b) == CASE b = "libMath" -> {Flag("U", "-lm")}
                [] b = "libPthread" -> {Flag("U", "-pthread")}
                [] b = "externSystemFunction036" -> {Flag("W", "-ladvapi32")}
                [] b \in {"libOpensslRand", "libOpensslSsl"} -> OpenSsl
                [] OTHER -> {}

\* ---------------------------------------------------------------- entities
\* A name stands for the first entity of that name
ByName(es) == FoldLeft(LAMBDA named, e : named @@ (e.name :> e), <<>>, es)
EntityAt == (TRUE :> ByName(Entities[TRUE])) @@ (FALSE :> ByName(Entities[FALSE]))
PositionOf(throws, n) == CHOOSE i \in DOMAIN Entities[throws] : Entities[throws][i].name = n

\* Two runtime names say map_K_V and pair_K_V for what is printed under the name of the map type
Resolve(n) == CASE n = "map_str_str" -> MapStr.name
                [] n = "pair_str_str" -> "pair" \o MapTail(Scalar("str"), Scalar("str"))
                [] OTHER -> n

\* --------------------------------------------------------------- activation
Names(throws) == DOMAIN HeadersOf \cup DOMAIN Runtime \cup Builtins \cup DOMAIN EntityAt[throws]
Known(n) == n \in Names(program.throws)

\* What a name depends on: a C symbol its headers, a runtime function the list of its table entry, a
\* builtin what it pulls in, a generated entity the names printed in its code
Listed(n, entity) == IF n \in DOMAIN HeadersOf THEN HeadersOf[n]
                     ELSE IF n \in DOMAIN Runtime THEN Runtime[n].deps \cup {Resolve(e) : e \in Runtime[n].entities}
                     ELSE IF n \in Builtins THEN Pulls(n)
                     ELSE entity[n].uses
DepsOf(throws, n) == Listed(n, EntityAt[throws])
Deps(n) == DepsOf(program.throws, n)

\* A builtin or an entity that is on is left alone; a runtime function is walked again (helpers.cpp:426)
Skipped_Entities(n) == n \in on /\ n \notin DOMAIN Runtime /\ n \notin Builtins
Skipped(n) == n \in on /\ n \notin DOMAIN Runtime

\* What main itself mentions: the pool of an asynchronous program, the error stack of one that throws
MainMentions(p) ==
  (IF p.async THEN {"threadpool_t", "threadpool_init", "threadpool_wait", "threadpool_deinit"} ELSE {}) \cup
  (IF p.throws THEN {"error_stack_push", "error_stack_pop", "err_state", "error_Error", "fprintf", "stderr",
                     "THE_EOL", "exit", "EXIT_FAILURE"} ELSE {})

Init == /\ program \in Programs
        /\ todo = program.mentions \cup MainMentions(program)
        /\ path = <<>> /\ on = {} /\ flags = {} /\ unknown = {}

Frame_NoEntities(n) == [node |-> n, rest |-> IF n \in DOMAIN Runtime THEN Runtime[n].deps ELSE Deps(n)]
Frame(n) == [node |-> n, rest |-> Deps(n)]
Activate(n, below) ==
  /\ on' = IF n \in DOMAIN HeadersOf THEN on ELSE on \cup {n}
  /\ flags' = flags \cup FlagsOf(n)
  /\ path' = Append(below, Frame(n))

\* The program mentions a name: Codegen::_ without an entity being printed
Mention == /\ path = <<>> /\ todo # {}
           /\ LET n == CHOOSE m \in todo : TRUE IN
                /\ todo' = todo \ {n}
                /\ IF ~Known(n) THEN unknown' = unknown \cup {n} /\ UNCHANGED <<path, on, flags>>
                   ELSE /\ unknown' = unknown
                        /\ IF Skipped(n) THEN UNCHANGED <<path, on, flags>> ELSE Activate(n, <<>>)
           /\ UNCHANGED program

\* The innermost activation reaches its next dependency
Reach == /\ path # <<>> /\ Last(path).rest # {}
         /\ LET top == Last(path)
                n == CHOOSE m \in top.rest : TRUE
                below == Append(Front(path), [top EXCEPT !.rest = @ \ {n}])
            IN IF ~Known(n) THEN unknown' = unknown \cup {n} /\ path' = below /\ UNCHANGED <<on, flags>>
               ELSE /\ unknown' = unknown
                    /\ IF Skipped(n) THEN path' = below /\ UNCHANGED <<on, flags>> ELSE Activate(n, below)
         /\ UNCHANGED <<program, todo>>

Return == /\ path # <<>> /\ Last(path).rest = {}
          /\ path' = Front(path)
          /\ UNCHANGED <<program, todo, on, flags, unknown>>

Done == todo = {} /\ path = <<>>
Printed == Done /\ UNCHANGED vars
Next == Mention \/ Reach \/ Return \/ Printed
Spec == Init /\ [][Next]_vars

\* ---------------------------------------------------------- the printed file
Functions == on \cap DOMAIN Runtime
Generated == {EntityAt[program.throws][n] : n \in on \cap DOMAIN EntityAt[program.throws]}

\* stdlib.h stands for stddef.h and inttypes.h for stdint.h (Codegen.cpp:590-591)
Included(b, S) == b \in S \/ (b = "libStddef" /\ "libStdlib" \in S) \/ (b = "libStdint" /\ "libInttypes" \in S)

\* What the printed builtin structs, variables and headers mention; a type outside codegenMetadata is
\* given by its header
WindowsMacro == {"THE_OS_WINDOWS"}
Sections ==
  [typeAny |-> {"size_t"}, typeBuffer |-> {"size_t"}, typeErrBuf |-> {"libSetJmp"},
   typeErrState |-> {"err_buf_t", "err_stack_t"}, typeRequest |-> WindowsMacro \cup {"SOCKET", "libOpensslSsl"},
   typeStr |-> {"size_t"}, typeThreadpool |-> {"bool", "threadpool_cond_t", "threadpool_mutex_t"},
   typeThreadpoolCond |-> WindowsMacro \cup {"CONDITION_VARIABLE", "pthread_cond_t"},
   typeThreadpoolMutex |-> WindowsMacro \cup {"CRITICAL_SECTION", "pthread_mutex_t"},
   typeThreadpoolFunc |-> {"threadpool_t", "threadpool_job_t"}, typeThreadpoolJob |-> {"threadpool_func_t"},
   typeThreadpoolThread |-> WindowsMacro \cup {"HANDLE", "pthread_t"},
   typeWinReparseDataBuffer |-> WindowsMacro \cup {"libWindows"},
   varErrState |-> {"err_state_t", "NULL"}, varLibOpensslInit |-> {"bool", "false"}, varLibWs2Init |-> {"bool", "false"}]
SectionUses(b) == IF b \in DOMAIN Sections THEN Sections[b]
                  ELSE IF b \in UnixHeaders \cup WindowsHeaders \cup {"externSystemFunction036"} THEN WindowsMacro
                  ELSE {}
UsesOf(throws, n) == IF n \in DOMAIN Runtime THEN Runtime[n].uses
                     ELSE IF n \in Builtins THEN SectionUses(n)
                     ELSE EntityAt[throws][n].uses
Mentioned == UNION {UsesOf(program.throws, n) : n \in on}
\* What is there for a name when the names S are printed
Available(u, S) == IF u \in Builtins THEN Included(u, S)
                   ELSE IF u \in DOMAIN HeadersOf THEN \A b \in HeadersOf[u] : Included(b, S) ELSE u \in S

\* The flags handed to the C compiler for a target (Codegen::compile)
Line(fs, os) == {f.lib : f \in {g \in fs : \/ g.os = "A"
                                           \/ g.os = "L" /\ os = "linux"
                                           \/ g.os = "M" /\ os = "macos"
                                           \/ g.os = "U" /\ os # "windows"
                                           \/ g.os = "W" /\ os = "windows"}}
LinkLine(os) == Line(flags, os)

\* --------------------------------------------------------------- properties
TypeOK == /\ program \in Programs /\ todo \subseteq program.mentions \cup MainMentions(program)
          /\ \A i \in DOMAIN path : path[i].rest \subseteq Deps(path[i].node)
          /\ on \subseteq DOMAIN Runtime \cup Builtins \cup DOMAIN EntityAt[program.throws]
          /\ \A f \in flags : f.os \in {"A", "L", "M", "U", "W"}

\* The activation of runtime functions has no guard of its own: it comes back to the same function only
\* through something that has one, so it ends (helpers.cpp:426).
NoEndlessActivation ==
  \A i, j \in DOMAIN path : i < j /\ path[i].node = path[j].node =>
    /\ path[i].node \in DOMAIN Runtime \cup DOMAIN HeadersOf
    /\ \E k \in i..j : path[k].node \in Builtins \cup DOMAIN EntityAt[program.throws]

\* Whatever the program mentions, no activation fails with "tried activating unknown" (helpers.cpp:433, 464).
KnownNames == unknown = {}

\* The printed file is complete: every function, type, variable and macro its code mentions is printed
\* or comes from a header that is, although only the dependency lists were followed.
FileClosed == Done => \A u \in Mentioned : Available(u, on)

\* Structs that another holds by value, and typedefs another names, are printed before it.
CompleteFirst == [typeErrState |-> {"typeErrBuf", "typeErrStack"},
                  typeThreadpool |-> {"typeThreadpoolCond", "typeThreadpoolMutex"},
                  typeThreadpoolJob |-> {"typeThreadpoolFunc"}]
DefinedBeforeUse == Done =>
  /\ \A e \in Generated : e.struct => \A m \in e.inner : m \in on /\ PositionOf(program.throws, m) < PositionOf(program.throws, e.name)
  /\ \A b \in on \cap DOMAIN CompleteFirst : \A m \in CompleteFirst[b] :
       m \in on /\ \E i, j \in DOMAIN Structs : i < j /\ Structs[i] = m /\ Structs[j] = b

\* A program links on every platform: the library behind each header it includes is on the line of every
\* platform that compiles the code using it, the sockets of Windows included.
Behind(b, os) == CASE b = "libMath" /\ os # "windows" -> {"-lm"}
                   [] b = "libPthread" /\ os # "windows" -> {"-pthread"}
                   [] b \in {"libWinsock2", "libWinWs2tcpip"} /\ os = "windows" -> {"-lws2_32"}
                   [] b = "externSystemFunction036" /\ os = "windows" -> {"-ladvapi32"}
                   [] b \in {"libOpensslRand", "libOpensslSsl"} -> {"-lssl", "-lcrypto"}
                   [] OTHER -> {}
Platforms == {"linux", "macos", "windows"}
Links == Done => \A b \in on \cap Builtins, os \in Platforms : Behind(b, os) \subseteq LinkLine(os)

\* A runtime function that calls one an error can leave is itself declared to throw, and one that is
\* declared to throw takes the error state: the frame of an error never passes a function unaware of it.
DeclaresErrors(n) ==
  /\ (\E c \in Runtime[n].uses \cap DOMAIN Runtime : Runtime[c].throws) => Runtime[n].throws
  /\ Runtime[n].throws => SubSeq(Runtime[n].params, 1, 3) = <<"err_state_t *", "int", "int">>
ErrorsDeclared == Done => \A n \in Functions : DeclaresErrors(n)

\* Every C entity is created once: a second struct or function of the same name would not compile.
EntitiesUnique == Done =>
  LET es == Entities[program.throws] IN \A i, j \in DOMAIN es : es[i].name = es[j].name => i = j

\* Printing an object's functions walks the list of entities in place (type-obj.cpp:60): what they name
\* was created before the object's struct or is the object's own, so that walk never grows the list.
DefinitionCreatesNothing == Done =>
  LET es == Entities[program.throws]
      All == {es[i].name : i \in DOMAIN es}
  IN \A o \in ToSet(BuiltinObjects) \cup ToSet(UserObjects) :
       LET k == PositionOf(program.throws, o) IN
         \A i \in k..k + 7 : \A n \in es[i].uses \cap All : PositionOf(program.throws, n) <= k + 7

\* The file compiles as far as names go, and links: what is used is there and known, no error passes a
\* function unaware of it, and the libraries are on the line.
FileComplete == KnownNames /\ FileClosed /\ ErrorsDeclared /\ Links

\* The generated types settle: each is created once, printed behind what it needs complete, and none is
\* created while the list of them is printed.
EntitiesSettled == TypeOK /\ DefinedBeforeUse /\ EntitiesUnique /\ DefinitionCreatesNothing
====
