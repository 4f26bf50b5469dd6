---- MODULE ActivationInv ----
(* Why the printed file is complete whatever a program mentions. The tables  *)
(* are finite: each name alone pulls in all that its code uses, as the       *)
(* distances Distance(throws, n) of the names it reaches bear witness; and   *)
(* the runtime functions that one depends on lie below it in Height. TLC     *)
(* evaluates the assumptions on the compiler's own tables; ActivationProofs  *)
(* draws from them what the generator promises for every program.            *)
EXTENDS Activation, Integers

CONSTANTS Distance(_, _), \* by whether the program throws and by name: how far is what the name reaches
          Height(_)       \* a height for each runtime function

\* What can be on, and what is walked again although it is
Emitted(throws) == DOMAIN Runtime \cup Builtins \cup DOMAIN EntityAt[throws]
Walked == DOMAIN Runtime \cup DOMAIN HeadersOf

\* ---------------------------------------------------------------- the tables
\* A name is a C symbol, a runtime function, a builtin or a generated entity, and no two of these.
ASSUME NamesApart ==
  /\ DOMAIN HeadersOf \cap (DOMAIN Runtime \cup Builtins) = {}
  /\ DOMAIN Runtime \cap Builtins = {}
  /\ \A throws \in BOOLEAN : DOMAIN EntityAt[throws] \cap (DOMAIN HeadersOf \cup DOMAIN Runtime \cup Builtins) = {}

\* Known names depend on known names, C symbols on headers only.
ASSUME NamesClosed ==
  /\ \A throws \in BOOLEAN : \A n \in Names(throws) : DepsOf(throws, n) \subseteq Names(throws)
  /\ \A s \in DOMAIN HeadersOf : HeadersOf[s] \subseteq Builtins

\* Runtime functions do not depend on each other in a circle of runtime functions.
ASSUME HeightFalls ==
  \A f \in DOMAIN Runtime :
    /\ Height(f) \in Nat
    /\ \A throws \in BOOLEAN : \A g \in DepsOf(throws, f) \cap DOMAIN Runtime : Height(g) < Height(f)

\* A name reaches, besides itself, what some name depends on that is nearer.
Witnesses(throws, n, distance) ==
  \A m \in DOMAIN distance :
    /\ m \in Names(throws) /\ distance[m] \in Nat
    /\ m = n \/ \E k \in DOMAIN distance : distance[k] < distance[m] /\ m \in DepsOf(throws, k)
ASSUME DistancesRight ==
  \A throws \in BOOLEAN : \A n \in Emitted(throws) : Witnesses(throws, n, Distance(throws, n))

\* What one name reaches is all that its own code needs, the libraries behind the headers it asks for included.
Reached(throws, n) == DOMAIN Distance(throws, n)
FlagsReached(throws, n) == UNION {FlagsOf(m) : m \in Reached(throws, n) \cap Emitted(throws)}
Linked(b, fs) == \A os \in Platforms : Behind(b, os) \subseteq Line(fs, os)
AskedBy(deps) == (deps \cap Builtins) \cup UNION {HeadersOf[s] : s \in deps \cap DOMAIN HeadersOf}
ASSUME EachComplete ==
  \A throws \in BOOLEAN : \A n \in Emitted(throws) :
    /\ \A u \in UsesOf(throws, n) : Available(u, Reached(throws, n))
    /\ \A b \in AskedBy(DepsOf(throws, n)) : Linked(b, FlagsReached(throws, n))
    /\ n \in DOMAIN Runtime => DeclaresErrors(n)

\* The struct of a type mentions the structs it holds by value, and they are entities; a builtin struct
\* asks for its parts.
ASSUME PartsNamed ==
  /\ \A throws \in BOOLEAN : \A n \in DOMAIN EntityAt[throws] :
       LET e == EntityAt[throws][n] IN e.struct => e.inner \subseteq e.uses \cap DOMAIN EntityAt[throws]
  /\ \A b \in DOMAIN CompleteFirst : b \in Builtins /\ CompleteFirst[b] \subseteq Builtins \cap AskedBy(Pulls(b))

\* Programs mention names the compiler knows, and no header on its own whose library does not come with it.
Mentions(p) == p.mentions \cup MainMentions(p)
ASSUME ProgramsKnown ==
  \A p \in Programs : /\ p.throws \in BOOLEAN
                      /\ Mentions(p) \subseteq Names(p.throws)
                      /\ \A b \in AskedBy(Mentions(p)) : Linked(b, FlagsOf(b))

\* ------------------------------------------------------------- the invariant
\* What is on or will be, a C symbol by its headers
Owed == UNION {path[i].rest : i \in DOMAIN path}
Coming == on \cup Owed
Seen(n) == n \in Coming \/ (n \in DOMAIN HeadersOf /\ HeadersOf[n] \subseteq Coming)

FrameTypes(throws) == [node : Names(throws), rest : SUBSET Names(throws)]
ActivationTypes ==
  /\ program \in Programs /\ todo \subseteq Mentions(program)
  /\ on \subseteq Emitted(program.throws) /\ path \in Seq(FrameTypes(program.throws))

\* No mention and no dependency is dropped on the way.
NothingForgotten ==
  /\ \A m \in Mentions(program) : m \in todo \/ Seen(m)
  /\ \A n \in on : \A d \in Deps(n) : Seen(d)
  /\ \A n \in on : FlagsOf(n) \subseteq flags

\* Each activation under way was reached from the one before it, is on unless it is a C symbol, comes
\* back only when it is walked again, and falls in height as long as only such names are on the path.
AllWalked(i, j) == \A k \in i..j : path[k].node \in Walked
Falls(i, j) == /\ path[i].node \in DOMAIN Runtime
               /\ path[j].node \in DOMAIN Runtime => Height(path[j].node) < Height(path[i].node)
PathDescends ==
  /\ \A i \in DOMAIN path : path[i].rest \subseteq Deps(path[i].node) /\ path[i].node \in on \cup DOMAIN HeadersOf
  /\ \A i, j \in DOMAIN path : i < j =>
       /\ path[i].node = path[j].node => path[i].node \in Walked
       /\ AllWalked(i, j) => Falls(i, j)

\* Nothing is reached, and no builtin is on, without a name that asked for it.
NothingUncalledFor ==
  /\ \A i \in DOMAIN path : path[i].node \in IF i = 1 THEN Mentions(program) ELSE Deps(path[i - 1].node)
  /\ \A b \in on \cap Builtins : b \in AskedBy(Mentions(program)) \/ \E n \in on : b \in AskedBy(Deps(n))

\* Of DefinedBeforeUse, what the walk has to see to: nothing that a printed struct holds is left out.
PartsPrinted == Done =>
  /\ \A e \in Generated : e.struct => e.inner \subseteq on
  /\ \A b \in on \cap DOMAIN CompleteFirst : CompleteFirst[b] \subseteq on

ActivationInvariant == ActivationTypes /\ KnownNames /\ NothingForgotten /\ PathDescends /\ NothingUncalledFor
====
