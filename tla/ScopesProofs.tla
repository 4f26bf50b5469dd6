----------------------------- MODULE ScopesProofs -----------------------------
(***************************************************************************)
(* A name means one variable in the list and in the printed text, for any  *)
(* program of any size: the theorems of Scopes.                            *)
(*                                                                         *)
(* A step puts variables, functions and a block behind what there is       *)
(* (Grows), or closes the innermost block.  Both keep the invariant        *)
(* conjunct by conjunct; what remains is that each action is such a step.  *)
(***************************************************************************)
EXTENDS Scopes, IntervalLemmas

(* Why a name means one variable for any program: what the list of         *)
(* variables, the meaning of names and the printed text have to do with    *)
(* each other while a program is walked.  A variable is of the innermost   *)
(* block that was open when it was given its id; ids grow with the list    *)
(* and with the blocks, and all else follows them.                         *)

IsBlock(b) ==
  /\ b = [kind |-> b.kind, frame |-> b.frame, fn |-> b.fn, since |-> b.since, env |-> b.env,
          printed |-> b.printed, todo |-> b.todo, at |-> b.at]
  /\ b.frame \in Nat /\ b.since \in Nat /\ b.fn \in Nat
  /\ b.todo \in Seq(Range(b.todo))

\* The list: every id once, and code names that tell variables from functions
ListTypes ==
  /\ decls \in Nat /\ IsFiniteSet(varMap)
  /\ \A v \in varMap : /\ v = Var(v.name, v.code, v.frame, v.id) /\ v.id \in 1..decls
                       /\ v.code \in {<<v.name, "fn", v.id>>, <<v.name, v.code[2]>>}
  /\ \A v, w \in varMap : v.id = w.id => v = w

\* c is opened in b, whatever is between them: directly, if nothing is.
Inside(b, c) ==
  /\ b.since <= c.since /\ b.fn <= c.fn
  /\ b.frame <= c.frame /\ (c.kind # "try" => b.frame < c.frame)
OpensIn(b, c) ==
  /\ c.frame = IF c.kind = "try" THEN b.frame ELSE b.frame + 1
  /\ c.fn = IF c.kind = "fn" THEN b.fn + 1 ELSE b.fn

\* The blocks: each was opened behind the one around it, in a frame and a function of its own or in its
BlockTypes ==
  /\ blocks \in Seq(Range(blocks)) /\ Depth # 0
  /\ \A i \in DOMAIN blocks : IsBlock(blocks[i]) /\ blocks[i].since <= decls
  /\ blocks[1].since = 0
  /\ \A i, j \in DOMAIN blocks : 
       i < j => Inside(blocks[i], blocks[j]) /\ (j = i + 1 => OpensIn(blocks[i], blocks[j]))
  /\ stacks \in Seq(Range(stacks)) /\ Len(stacks) = Innermost.fn
  /\ \A i \in DOMAIN blocks : blocks[i].fn \in DOMAIN stacks

\* The variables of a block
Of(v, i) == blocks[i].since < v.id /\ \A j \in DOMAIN blocks : i < j => v.id <= blocks[j].since
FramesFollow == \A v \in varMap, i \in DOMAIN blocks : Of(v, i) => v.frame = blocks[i].frame

\* Functions that are ahead were given ids by their block.
TodoGiven ==
  \A i \in DOMAIN blocks : \A fn \in Range(blocks[i].todo) :
    /\ blocks[i].since < fn.id /\ fn.id <= decls /\ fn.id \in Nat
    /\ \A v \in varMap : v.id = fn.id => v.code = FnCode(fn)

\* What a name means in a block is a variable of the block in the list, but for a function that was not added.
MeantIsListed ==
  \A i \in DOMAIN blocks : \A n \in DOMAIN blocks[i].env :
    \/ blocks[i].env[n] \in strays
    \/ \E v \in varMap : v.id = blocks[i].env[n] /\ v.name = n /\ Of(v, i)

\* The last variable of a name in a block is what the name means there, unless a function was not added
\* for it or it was left behind by a try.
Newest(v, i) == Of(v, i) /\ \A w \in varMap : w.name = v.name /\ Of(w, i) => w.id <= v.id
ListedIsMeant ==
  \A i \in DOMAIN blocks : \A v \in varMap : Newest(v, i) =>
    \/ v.id \in strays
    \/ /\ v.name \in DOMAIN blocks[i].env
       /\ \/ blocks[i].env[v.name] = v.id
          \/ blocks[i].kind # "try" /\ blocks[i].env[v.name] \in strays

\* What a name means in a block is printed there or will be.
MeantIsPrinted ==
  \A i \in DOMAIN blocks : \A n \in DOMAIN blocks[i].env : \A v \in varMap :
    v.id = blocks[i].env[n] /\ v.id \notin strays /\ Of(v, i) =>
      \/ v.id \in Ahead(blocks[i])
      \/ v.code \in DOMAIN blocks[i].printed /\ blocks[i].printed[v.code] = v.id

\* A block prints no code name of a variable that was there before it.
PrintedAnew ==
  \A v \in varMap, i \in DOMAIN blocks : v.id <= blocks[i].since => v.code \notin DOMAIN blocks[i].printed

\* A function may use what was there when it was opened, and all of that.
StacksFollow ==
  /\ \A i \in DOMAIN blocks : \A code \in stacks[blocks[i].fn] : \E v \in varMap : v.code = code /\ v.id <= blocks[i].since
  /\ \A i \in DOMAIN blocks, g \in DOMAIN stacks : \A v \in varMap :
       blocks[i].fn < g /\ Of(v, i) => v.code \in stacks[g]

ScopesInvariant ==
  /\ ListTypes /\ BlockTypes /\ FramesFollow /\ TodoGiven /\ MeantIsListed /\ ListedIsMeant
  /\ MeantIsPrinted /\ PrintedAnew /\ StacksFollow

----------------------------------------------------------------------------
(* A sequence is one of what is in it, and of anything that has that. *)
LEMMA OwnRange ==
  ASSUME NEW F, NEW s \in Seq(F)
  PROVE  s \in Seq(Range(s)) /\ Range(s) \subseteq F
<1>1. s \in [1..Len(s) -> F] /\ Len(s) \in Nat /\ DOMAIN s = 1..Len(s)
  BY LenProperties
<1>2. s \in [1..Len(s) -> Range(s)]
  BY <1>1 DEF Range
<1>3. PICK n \in Nat : n = Len(s)
  BY <1>1
<1>4. s \in Seq(Range(s))
  BY <1>2, <1>3, IsSequence
<1> QED BY <1>1, <1>4 DEF Range

LEMMA WiderRange ==
  ASSUME NEW s, s \in Seq(Range(s)), NEW F, Range(s) \subseteq F
  PROVE  s \in Seq(F)
<1>1. s \in [1..Len(s) -> Range(s)] /\ Len(s) \in Nat
  BY LenProperties
<1>2. s \in [1..Len(s) -> F]
  BY <1>1
<1>3. PICK n \in Nat : n = Len(s)
  BY <1>1
<1> QED BY <1>2, <1>3, IsSequence

----------------------------------------------------------------------------
(* What the invariant says of the places of blocks. *)
LEMMA Places ==
  ASSUME ListTypes, BlockTypes
  PROVE  /\ Depth \in Nat \ {0} /\ DOMAIN blocks = 1..Depth /\ Len(stacks) \in Nat /\ DOMAIN stacks = 1..Len(stacks)
         /\ blocks # <<>>
         /\ \A i \in DOMAIN blocks : blocks[i].since \in Nat /\ blocks[i].frame \in Nat /\ blocks[i].fn \in Nat
<1>1. blocks \in Seq(Range(blocks)) /\ Depth # 0 /\ stacks \in Seq(Range(stacks))
  BY DEF BlockTypes
<1>2. Depth \in Nat /\ DOMAIN blocks = 1..Depth
  BY <1>1, LenProperties DEF Depth
<1>3. Len(stacks) \in Nat /\ DOMAIN stacks = 1..Len(stacks)
  BY <1>1, LenProperties
<1>4. blocks # <<>>
  BY <1>1, EmptySeq DEF Depth
<1>5. \A i \in DOMAIN blocks : blocks[i].since \in Nat /\ blocks[i].frame \in Nat /\ blocks[i].fn \in Nat
  BY DEF BlockTypes, IsBlock
<1> QED BY <1>1, <1>2, <1>3, <1>4, <1>5

(* Every variable of the list is one of an open block, and of one only. *)
LEMMA HasBlock ==
  ASSUME ListTypes, BlockTypes, NEW v \in varMap
  PROVE  \E i \in DOMAIN blocks : Of(v, i)
<1>1. PICK K \in Nat \ {0} : K = Depth /\ DOMAIN blocks = 1..K
  BY Places
<1> DEFINE S == {i \in 1..K : blocks[i].since < v.id}
<1>2. v.id \in Nat /\ v.id > 0
  BY DEF ListTypes
<1>3. 1 \in S
  BY <1>1, <1>2 DEF BlockTypes
<1>4. S \in SUBSET (1..K) /\ S # {}
  BY <1>3
<1>5. PICK m \in S : \A x \in S : x <= m
  <2> HIDE DEF S
  <2> QED BY <1>1, <1>4, LargestMember
<1>6. \A j \in DOMAIN blocks : m < j => v.id <= blocks[j].since
  <2>1. SUFFICES ASSUME NEW j \in DOMAIN blocks, m < j PROVE v.id <= blocks[j].since
    OBVIOUS
  <2>2. j \notin S
    BY <1>1, <1>5, <2>1
  <2>3. blocks[j].since \in Nat
    BY Places
  <2> QED BY <1>1, <1>2, <2>2, <2>3
<1> QED BY <1>1, <1>5, <1>6 DEF Of

LEMMA OneBlock ==
  ASSUME ListTypes, BlockTypes, NEW v \in varMap, NEW i \in DOMAIN blocks, NEW j \in DOMAIN blocks, Of(v, i), Of(v, j)
  PROVE  i = j
<1>1. i \in Nat /\ j \in Nat /\ v.id \in Nat /\ blocks[i].since \in Nat /\ blocks[j].since \in Nat
  BY Places DEF ListTypes
<1>2. i < j => FALSE
  BY <1>1 DEF Of
<1>3. j < i => FALSE
  BY <1>1 DEF Of
<1> QED BY <1>1, <1>2, <1>3

----------------------------------------------------------------------------
(* The invariant says that names agree. *)
LEMMA MaxIs ==
  ASSUME NEW S \in SUBSET Nat, NEW m \in S, \A x \in S : x <= m
  PROVE  Max(S) = m
<1>1. \A x \in S : m >= x
  OBVIOUS
<1>2. ASSUME NEW k \in S, \A x \in S : k >= x PROVE k = m
  BY <1>2
<1>3. PICK c : c = CHOOSE k \in S : \A x \in S : k >= x
  OBVIOUS
<1>4. c \in S /\ \A x \in S : c >= x
  BY <1>1, <1>3
<1> QED BY <1>2, <1>3, <1>4 DEF Max

(* What the list gives for a name: its newest variable *)
LEMMA GetIsNewest ==
  ASSUME ListTypes, NEW n, has(varMap, n)
  PROVE  \E v \in varMap : v.name = n /\ get(varMap, n) = v.id /\ \A w \in varMap : w.name = n => w.id <= v.id
<1> DEFINE W == {w \in varMap : w.name = n}
           S == {v.id : v \in W}
<1>1. PICK N \in Nat : N = decls
  BY DEF ListTypes
<1>2. S \in SUBSET (1..N) /\ S # {}
  BY <1>1 DEF ListTypes, has
<1>3. PICK m \in S : \A x \in S : x <= m
  <2> HIDE DEF S
  <2> QED BY <1>2, LargestMember
<1>4. Max(S) = m
  <2>1. S \in SUBSET Nat
    BY <1>2
  <2> HIDE DEF S
  <2> QED BY <1>3, <2>1, MaxIs
<1>5. get(varMap, n) = m
  BY <1>4 DEF get
<1>6. PICK v \in W : v.id = m
  BY <1>3
<1>7. \A w \in varMap : w.name = n => w.id <= v.id
  BY <1>3, <1>6
<1> QED BY <1>5, <1>6, <1>7

(* The innermost block that gives a name a meaning *)
LEMMA MeantInnermost ==
  ASSUME ListTypes, BlockTypes, NEW n, NEW k \in DOMAIN blocks, n \in DOMAIN blocks[k].env
  PROVE  \E d \in DOMAIN blocks : /\ k <= d /\ n \in DOMAIN blocks[d].env /\ Meant(n) = blocks[d].env[n]
<1> DEFINE S == {b \in DOMAIN blocks : n \in DOMAIN blocks[b].env}
<1>1. PICK K \in Nat \ {0} : K = Depth /\ DOMAIN blocks = 1..K
  BY Places
<1>2. S \in SUBSET (1..K) /\ S # {} /\ k \in S
  BY <1>1
<1>3. PICK m \in S : \A x \in S : x <= m
  <2> HIDE DEF S
  <2> QED BY <1>1, <1>2, LargestMember
<1>4. Max(S) = m
  <2>1. S \in SUBSET Nat
    BY <1>2
  <2> HIDE DEF S
  <2> QED BY <1>3, <2>1, MaxIs
<1>5. Meant(n) = blocks[m].env[n]
  BY <1>2, <1>4 DEF Meant
<1> QED BY <1>2, <1>3, <1>5

(* No block of another function, and none further in, prints a variable's name. *)
LEMMA PrintedOnce ==
  ASSUME ScopesInvariant, NEW v \in varMap, NEW i \in DOMAIN blocks, Of(v, i), NEW j \in DOMAIN blocks,
         v.code \in DOMAIN blocks[j].printed
  PROVE  j <= i
<1>1. ~ (v.id <= blocks[j].since)
  BY DEF ScopesInvariant, PrintedAnew
<1>2. i \in Nat /\ j \in Nat
  BY Places DEF ScopesInvariant
<1> QED BY <1>1, <1>2 DEF Of

LEMMA PrintedAgain ==
  ASSUME ScopesInvariant, NEW v \in varMap, NEW i \in DOMAIN blocks, Of(v, i),
         v.code \in DOMAIN blocks[i].printed, blocks[i].printed[v.code] = v.id
  PROVE  Reached(v)
<1>1. /\ ListTypes /\ BlockTypes /\ StacksFollow
  BY DEF ScopesInvariant
<1>2. PICK K \in Nat \ {0} : K = Depth /\ DOMAIN blocks = 1..K
  BY <1>1, Places
<1>3. blocks[i].fn \in DOMAIN stacks /\ DOMAIN stacks = 1..Len(stacks) /\ Len(stacks) \in Nat
  BY <1>1, Places DEF BlockTypes
<1>4. PrintedAs(blocks[i].fn, v.code) = v.id
  <2> DEFINE S == {b \in DOMAIN blocks : blocks[b].fn = blocks[i].fn /\ v.code \in DOMAIN blocks[b].printed}
  <2>1. i \in S /\ S \in SUBSET Nat
    BY <1>2
  <2>2. \A x \in S : x <= i
    BY PrintedOnce
  <2>3. Max(S) = i
    <3> HIDE DEF S
    <3> QED BY <2>1, <2>2, MaxIs
  <2> QED BY <2>1, <2>3 DEF PrintedAs
<1>5. ASSUME NEW g \in blocks[i].fn + 1..Len(stacks)
      PROVE  v.code \in stacks[g] /\ PrintedAs(g, v.code) = NoVar
  <2>1. g \in DOMAIN stacks /\ blocks[i].fn < g
    BY <1>3
  <2>2. v.code \in stacks[g]
    BY <1>1, <2>1 DEF StacksFollow
  <2>3. ASSUME NEW b \in DOMAIN blocks, blocks[b].fn = g, v.code \in DOMAIN blocks[b].printed PROVE FALSE
    <3>1. b <= i /\ b # i
      BY <2>1, <2>3, PrintedOnce, <1>3
    <3>2. b < i
      BY <1>2, <3>1
    <3>3. blocks[b].fn <= blocks[i].fn
      BY <1>1, <3>2 DEF BlockTypes, Inside
    <3> QED BY <1>3, <2>1, <2>3, <3>3
  <2> QED BY <2>2, <2>3 DEF PrintedAs
<1> QED BY <1>3, <1>4, <1>5 DEF Reached

LEMMA InvariantAgrees ==
  ASSUME ScopesInvariant
  PROVE  ScopesAgree
<1>1. ListTypes /\ BlockTypes /\ MeantIsListed /\ ListedIsMeant /\ MeantIsPrinted /\ PrintedAnew /\ StacksFollow
  BY DEF ScopesInvariant
<1>2. ASSUME NEW n
      PROVE  \/ Meant(n) \in strays \/ get(varMap, n) \in strays
             \/ /\ get(varMap, n) = Meant(n)
                /\ \A v \in varMap : v.id = get(varMap, n) => v.id \in Early \/ Reached(v)
  <2>1. CASE ~ has(varMap, n)
    <3>1. get(varMap, n) = NoVar /\ \A v \in varMap : v.id # NoVar
      BY <1>1, <2>1 DEF get, ListTypes, NoVar
    <3>2. CASE \E k \in DOMAIN blocks : n \in DOMAIN blocks[k].env
      BY <1>1, <2>1, <3>2, MeantInnermost DEF MeantIsListed, has
    <3>3. CASE ~ \E k \in DOMAIN blocks : n \in DOMAIN blocks[k].env
      BY <3>1, <3>3 DEF Meant
    <3> QED BY <3>2, <3>3
  <2>2. CASE has(varMap, n)
    <3>1. PICK v \in varMap : /\ v.name = n /\ get(varMap, n) = v.id
                              /\ \A w \in varMap : w.name = n => w.id <= v.id
      BY <1>1, <2>2, GetIsNewest
    <3>2. PICK i \in DOMAIN blocks : Of(v, i)
      BY <1>1, HasBlock
    <3>3. SUFFICES ASSUME v.id \notin strays, Meant(n) \notin strays
                   PROVE  v.id = Meant(n) /\ \A w \in varMap : w.id = v.id => w.id \in Early \/ Reached(w)
      BY <3>1
    <3>4. Newest(v, i)
      BY <3>1, <3>2 DEF Newest
    <3>5. n \in DOMAIN blocks[i].env /\ (blocks[i].env[n] = v.id \/ blocks[i].env[n] \in strays)
      BY <1>1, <3>1, <3>3, <3>4 DEF ListedIsMeant
    <3>6. PICK d \in DOMAIN blocks : i <= d /\ n \in DOMAIN blocks[d].env /\ Meant(n) = blocks[d].env[n]
      BY <1>1, <3>5, MeantInnermost
    <3>7. PICK w \in varMap : w.id = Meant(n) /\ w.name = n /\ Of(w, d)
      BY <1>1, <3>3, <3>6 DEF MeantIsListed
    <3>8. d = i
      <4>1. ASSUME i < d PROVE FALSE
        <5>1. v.id <= blocks[d].since /\ blocks[d].since < w.id /\ w.id <= v.id
          BY <3>1, <3>2, <3>7, <4>1 DEF Of
        <5>2. v.id \in Nat /\ w.id \in Nat /\ blocks[d].since \in Nat
          BY <1>1, Places DEF ListTypes
        <5> QED BY <5>1, <5>2
      <4>2. i \in Nat /\ d \in Nat
        BY <1>1, Places
      <4> QED BY <3>6, <4>1, <4>2
    <3>9. v.id = Meant(n) /\ blocks[i].env[n] = v.id
      BY <3>3, <3>5, <3>6, <3>8
    <3>10. v.id \in Ahead(blocks[i]) \/ (v.code \in DOMAIN blocks[i].printed /\ blocks[i].printed[v.code] = v.id)
      BY <1>1, <3>2, <3>3, <3>5, <3>9 DEF MeantIsPrinted
    <3>11. v.id \in Early \/ Reached(v)
      BY <3>2, <3>10, PrintedAgain DEF Early
    <3>12. \A x \in varMap : x.id = v.id => x = v
      BY <1>1 DEF ListTypes
    <3> QED BY <3>9, <3>11, <3>12
  <2> QED BY <2>1, <2>2
<1>3. NamesAgree
  BY <1>2 DEF NamesAgree
<1>4. HeadersApart
  <2>1. SUFFICES ASSUME NEW b \in DOMAIN blocks, NEW code \in DOMAIN blocks[b].printed, code \in stacks[blocks[b].fn]
                 PROVE  FALSE
    BY DEF HeadersApart
  <2>2. PICK v \in varMap : v.code = code /\ v.id <= blocks[b].since
    BY <1>1, <2>1 DEF StacksFollow
  <2> QED BY <1>1, <2>1, <2>2 DEF PrintedAnew
<1> QED BY <1>3, <1>4 DEF ScopesAgree

----------------------------------------------------------------------------
(* A step that puts something behind what there is.  Innermost is then     *)
(* blocks'[Len(blocks')]: the block that was innermost, or one opened in it. *)
Top == Len(blocks')
Old(i) == i \in DOMAIN blocks
Prior(v) == v.id <= decls
GoesOn(b, c) == c.kind = b.kind /\ c.frame = b.frame /\ c.fn = b.fn /\ c.since = b.since /\ Range(c.todo) \subseteq Range(b.todo)

\* What is new in the list has an id and a code name that nothing else has.
ListGrows ==
  /\ decls' \in Nat /\ decls <= decls' /\ IsFiniteSet(varMap') /\ varMap \subseteq varMap' /\ strays \subseteq strays'
  /\ \A v \in varMap' \ varMap :
       /\ v = Var(v.name, v.code, v.frame, v.id) /\ v.id \in decls + 1..decls'
       /\ v.code \in {<<v.name, "fn", v.id>>, <<v.name, v.code[2]>>}
       /\ v.frame = blocks'[Top].frame
       /\ \A w \in varMap : w.code # v.code
  /\ \A v, w \in varMap' \ varMap : v.id = w.id => v = w

\* At most one block is opened.
BlocksGrow ==
  /\ blocks' \in Seq(Range(blocks'))
  /\ \A i \in DOMAIN blocks : GoesOn(blocks[i], blocks'[i])
  /\ \A i \in DOMAIN blocks' : IsBlock(blocks'[i])
  /\ \/ Top = Depth
     \/ /\ Top = Depth + 1 /\ blocks'[Top].since = decls
        /\ OpensIn(Innermost, blocks'[Top])
  /\ \A fn \in Range(blocks'[Top].todo) :
       \/ Old(Top) /\ fn \in Range(blocks[Top].todo)
       \/ /\ fn.id \in decls + 1..decls'
          /\ \A v \in varMap' \ varMap : v.id = fn.id => v.code = FnCode(fn)
  /\ stacks' \in Seq(Range(stacks')) /\ Len(stacks') = blocks'[Top].fn
  /\ \A g \in DOMAIN stacks' : (g \in DOMAIN stacks /\ stacks'[g] = stacks[g]) \/ stacks'[g] = varStack(varMap)
  /\ \A g \in DOMAIN stacks : g \in DOMAIN stacks' /\ stacks'[g] = stacks[g]

\* A name keeps its meaning in a block, unless a variable of this name is new in it;
\* a new meaning is something new, and printed or to be printed.
FreshlyMeant(c, n) ==
  \E v \in varMap' \ varMap :
    /\ v.id = c.env[n] /\ v.name = n
    /\ v.id \in Ahead(c) \/ (v.code \in DOMAIN c.printed /\ c.printed[v.code] = v.id)
MeaningGrows ==
  /\ \A i \in DOMAIN blocks : \A n \in DOMAIN blocks[i].env :
       /\ n \in DOMAIN blocks'[i].env
       /\ \/ blocks'[i].env[n] = blocks[i].env[n]
          \/ i = Top /\ \E v \in varMap' \ varMap : v.name = n
  /\ \A i \in DOMAIN blocks' : \A n \in DOMAIN blocks'[i].env :
       \/ Old(i) /\ n \in DOMAIN blocks[i].env /\ blocks'[i].env[n] = blocks[i].env[n]
       \/ blocks'[i].env[n] \in strays'
       \/ i = Top /\ FreshlyMeant(blocks'[i], n)
  /\ \A v \in varMap' \ varMap : (\A w \in varMap' \ varMap : w.name = v.name => w.id <= v.id) =>
       \/ v.id \in strays'
       \/ /\ v.name \in DOMAIN blocks'[Top].env
          /\ \/ blocks'[Top].env[v.name] = v.id
             \/ blocks'[Top].kind # "try" /\ blocks'[Top].env[v.name] \in strays'

\* What is printed stays so, functions leave those ahead when they are printed, and what is
\* printed anew has a code name that nothing had when the block was opened.
PrintGrows ==
  /\ \A i \in DOMAIN blocks : \A v \in varMap :
       /\ v.code \in DOMAIN blocks[i].printed /\ blocks[i].printed[v.code] = v.id =>
            v.code \in DOMAIN blocks'[i].printed /\ blocks'[i].printed[v.code] = v.id
       /\ v.id \in Ahead(blocks[i]) =>
            \/ v.id \in Ahead(blocks'[i])
            \/ v.code \in DOMAIN blocks'[i].printed /\ blocks'[i].printed[v.code] = v.id
  /\ \A i \in DOMAIN blocks' : \A code \in DOMAIN blocks'[i].printed :
       \/ Old(i) /\ code \in DOMAIN blocks[i].printed
       \/ \A v \in varMap : v.id <= blocks'[i].since => v.code # code

Grows == ListGrows /\ BlocksGrow /\ MeaningGrows /\ PrintGrows

LEMMA GrownPlaces ==
  ASSUME ListTypes, BlockTypes, ListGrows, BlocksGrow
  PROVE  /\ Top \in Nat \ {0} /\ DOMAIN blocks' = 1..Top /\ DOMAIN blocks = 1..Depth /\ Depth \in Nat \ {0}
         /\ Len(stacks') \in Nat /\ DOMAIN stacks' = 1..Len(stacks')
         /\ DOMAIN blocks \subseteq DOMAIN blocks'
         /\ Top \in DOMAIN blocks'
         /\ \A i \in DOMAIN blocks' : Old(i) \/ (i = Top /\ Top = Depth + 1)
         /\ \A i \in DOMAIN blocks' : blocks'[i].since \in 0..decls
         /\ decls \in Nat /\ decls' \in Nat
<1>1. PICK K \in Nat \ {0} : K = Depth /\ DOMAIN blocks = 1..K
  BY Places
<1>2. Len(blocks') \in Nat /\ DOMAIN blocks' = 1..Len(blocks') /\ Len(stacks') \in Nat /\ DOMAIN stacks' = 1..Len(stacks')
  BY LenProperties DEF BlocksGrow
<1>3. PICK L \in Nat : L = Top /\ DOMAIN blocks' = 1..L
  BY <1>2 DEF Top
<1>4. L = K \/ (L = K + 1 /\ blocks'[L].since = decls)
  BY <1>1, <1>3 DEF BlocksGrow
<1>5. \A i \in DOMAIN blocks' : Old(i) \/ (i = Top /\ Top = Depth + 1)
  BY <1>1, <1>3, <1>4 DEF Old
<1>6. decls \in Nat /\ decls' \in Nat
  BY DEF ListTypes, ListGrows
<1>7. ASSUME NEW i \in DOMAIN blocks' PROVE blocks'[i].since \in 0..decls
  <2>1. CASE Old(i)
    <3>1. blocks'[i].since = blocks[i].since
      BY <2>1 DEF Old, BlocksGrow, GoesOn
    <3>2. blocks[i].since \in Nat /\ blocks[i].since <= decls
      BY <2>1, Places DEF Old, BlockTypes
    <3> QED BY <1>6, <3>1, <3>2
  <2>2. CASE i = Top /\ Top = Depth + 1
    <3>1. i = L /\ L = K + 1
      BY <1>1, <1>3, <2>2
    <3>2. L # K /\ i = L
      BY <3>1
    <3>3. blocks'[i].since = decls
      BY <1>4, <3>2
    <3> QED BY <1>6, <3>3
  <2> QED BY <1>5, <2>1, <2>2
<1>8. L \in Nat \ {0} /\ 1..K \subseteq 1..L /\ L \in 1..L
  BY <1>4
<1>9. /\ Top \in Nat \ {0} /\ DOMAIN blocks' = 1..Top /\ DOMAIN blocks \subseteq DOMAIN blocks'
      /\ Top \in DOMAIN blocks'
  BY <1>1, <1>3, <1>8
<1> QED BY <1>1, <1>2, <1>5, <1>6, <1>7, <1>9

(* Old variables stay where they are, new ones are of the innermost block. *)
LEMMA OldStays ==
  ASSUME ListTypes, BlockTypes, ListGrows, BlocksGrow, NEW v \in varMap, NEW i \in DOMAIN blocks'
  PROVE  Of(v, i)' <=> Old(i) /\ Of(v, i)
<1>1. v.id \in Nat /\ v.id <= decls /\ decls \in Nat
  BY DEF ListTypes
<1>2. ASSUME Old(i) PROVE Of(v, i)' <=> Of(v, i)
  <2>1. \A j \in DOMAIN blocks' : Old(j) \/ v.id <= blocks'[j].since
    BY <1>1, GrownPlaces DEF BlocksGrow
  <2>2. \A j \in DOMAIN blocks : j \in DOMAIN blocks' /\ blocks'[j].since = blocks[j].since
    BY GrownPlaces DEF BlocksGrow, GoesOn
  <2>3. ASSUME Of(v, i)' PROVE Of(v, i)
    BY <1>2, <2>2, <2>3 DEF Of, Old
  <2>4. ASSUME Of(v, i) PROVE Of(v, i)'
    <3>1. SUFFICES ASSUME NEW j \in DOMAIN blocks', i < j PROVE v.id <= blocks'[j].since
      BY <1>2, <2>2, <2>4 DEF Of, Old
    <3> QED BY <1>2, <2>1, <2>2, <2>4, <3>1 DEF Of, Old
  <2> QED BY <2>3, <2>4
<1>3. ASSUME ~ Old(i) PROVE ~ Of(v, i)'
  <2>1. blocks'[i].since = decls
    <3>1. i = Top /\ Top = Depth + 1 /\ Depth \in Nat
      BY <1>3, GrownPlaces
    <3> QED BY <3>1 DEF BlocksGrow
  <2>2. ~ (blocks'[i].since < v.id)
    BY <1>1, <2>1
  <2> QED BY <2>2 DEF Of
<1> QED BY <1>2, <1>3

LEMMA NewIsInnermost ==
  ASSUME ListTypes, BlockTypes, ListGrows, BlocksGrow, NEW v \in varMap' \ varMap, NEW i \in DOMAIN blocks'
  PROVE  Of(v, i)' <=> i = Top
<1>1. PICK L \in Nat : L = Top /\ DOMAIN blocks' = 1..L /\ L \in DOMAIN blocks'
  BY GrownPlaces
<1>2. v.id \in Nat /\ decls \in Nat /\ decls < v.id
  BY DEF ListGrows, ListTypes
<1>3. \A j \in DOMAIN blocks' : blocks'[j].since \in Nat /\ blocks'[j].since < v.id
  BY <1>2, GrownPlaces
<1>4. i = L => Of(v, i)'
  BY <1>1, <1>3 DEF Of
<1>5. i # L => i < L
  BY <1>1
<1>6. i < L => ~ Of(v, i)'
  <2>1. SUFFICES ASSUME i < L, Of(v, i)' PROVE FALSE
    OBVIOUS
  <2>2. v.id <= blocks'[L].since
    BY <1>1, <2>1 DEF Of
  <2> QED BY <1>1, <1>2, <1>3, <2>2
<1> QED BY <1>1, <1>4, <1>5, <1>6

LEMMA ListTypesGrow ==
  ASSUME ListTypes, ListGrows
  PROVE  ListTypes'
<1>1. decls' \in Nat /\ IsFiniteSet(varMap') /\ decls \in Nat /\ decls <= decls'
  BY DEF ListGrows, ListTypes
<1>2. ASSUME NEW v \in varMap'
      PROVE  /\ v = Var(v.name, v.code, v.frame, v.id) /\ v.id \in 1..decls'
             /\ v.code \in {<<v.name, "fn", v.id>>, <<v.name, v.code[2]>>}
  <2>1. CASE v \in varMap
    <3>1. /\ v = Var(v.name, v.code, v.frame, v.id) /\ v.id \in 1..decls
          /\ v.code \in {<<v.name, "fn", v.id>>, <<v.name, v.code[2]>>}
      BY <2>1 DEF ListTypes
    <3>2. v.id \in 1..decls'
      BY <1>1, <3>1
    <3> QED BY <3>1, <3>2
  <2>2. CASE v \in varMap' \ varMap
    <3>1. /\ v = Var(v.name, v.code, v.frame, v.id) /\ v.id \in decls + 1..decls'
          /\ v.code \in {<<v.name, "fn", v.id>>, <<v.name, v.code[2]>>}
      BY <2>2 DEF ListGrows
    <3>2. v.id \in 1..decls'
      BY <1>1, <3>1
    <3> QED BY <3>1, <3>2
  <2> QED BY <2>1, <2>2
<1>3. ASSUME NEW v \in varMap', NEW w \in varMap', v.id = w.id PROVE v = w
  <2>1. CASE v \in varMap /\ w \in varMap
    BY <1>3, <2>1 DEF ListTypes
  <2>2. CASE v \notin varMap /\ w \notin varMap
    BY <1>3, <2>2 DEF ListGrows
  <2>3. ASSUME NEW x \in varMap, NEW y \in varMap' \ varMap PROVE x.id # y.id
    <3>1. x.id \in 1..decls /\ y.id \in decls + 1..decls'
      BY DEF ListTypes, ListGrows
    <3> QED BY <1>1, <3>1
  <2> QED BY <1>3, <2>1, <2>2, <2>3
<1> QED BY <1>1, <1>2, <1>3 DEF ListTypes

LEMMA BlockTypesGrow ==
  ASSUME ListTypes, BlockTypes, ListGrows, BlocksGrow
  PROVE  BlockTypes'
<1>1. PICK K \in Nat \ {0} : K = Depth /\ DOMAIN blocks = 1..K
  BY Places
<1>2. PICK L \in Nat \ {0} : L = Top /\ DOMAIN blocks' = 1..L
  BY GrownPlaces
<1>3. L = K \/ (L = K + 1 /\ blocks'[L].since = decls /\ OpensIn(blocks[K], blocks'[L]))
  BY <1>1, <1>2 DEF BlocksGrow, Innermost, Depth, Last
<1>4. \A i \in 1..K : GoesOn(blocks[i], blocks'[i])
  BY <1>1 DEF BlocksGrow
<1>5. blocks' \in Seq(Range(blocks')) /\ Depth' # 0
  BY <1>2 DEF BlocksGrow, Depth, Top
<1>6. decls \in Nat /\ decls' \in Nat /\ decls <= decls'
  BY DEF ListTypes, ListGrows
<1>7. \A i \in DOMAIN blocks' : IsBlock(blocks'[i]) /\ blocks'[i].since \in 0..decls
  BY GrownPlaces DEF BlocksGrow
<1>8. ASSUME NEW i \in DOMAIN blocks' PROVE IsBlock(blocks'[i]) /\ blocks'[i].since <= decls'
  BY <1>6, <1>7
<1>9. blocks'[1].since = 0
  <2>1. 1 \in 1..K
    OBVIOUS
  <2> QED BY <1>4, <2>1 DEF GoesOn, BlockTypes
<1>10. ASSUME NEW i \in DOMAIN blocks', NEW j \in DOMAIN blocks', i < j
       PROVE  Inside(blocks'[i], blocks'[j]) /\ (j = i + 1 => OpensIn(blocks'[i], blocks'[j]))
  <2>1. CASE j \in 1..K
    <3>1. i \in 1..K
      BY <1>2, <1>10, <2>1
    <3>2. Inside(blocks[i], blocks[j]) /\ (j = i + 1 => OpensIn(blocks[i], blocks[j]))
      BY <1>1, <1>10, <2>1, <3>1 DEF BlockTypes
    <3>3. GoesOn(blocks[i], blocks'[i]) /\ GoesOn(blocks[j], blocks'[j])
      BY <1>4, <2>1, <3>1
    <3> QED BY <3>2, <3>3 DEF GoesOn, Inside, OpensIn
  <2>2. CASE j \notin 1..K
    <3>1. L = K + 1 /\ j = L /\ i \in 1..K
      BY <1>2, <1>3, <1>10, <2>2
    <3>2. blocks'[j].since = decls /\ OpensIn(blocks[K], blocks'[j])
      BY <1>1, <1>3, <3>1
    <3>3. GoesOn(blocks[i], blocks'[i]) /\ blocks[i].since \in Nat /\ blocks[i].since <= decls
      BY <1>1, <1>4, <3>1, Places DEF BlockTypes
    <3>4. PICK b, c, p : b = blocks[i] /\ c = blocks'[j] /\ p = blocks[K]
      OBVIOUS
    <3>5. b.fn <= p.fn /\ b.frame <= p.frame
      <4>1. CASE i = K
        <5>1. p.fn \in Nat /\ p.frame \in Nat
          BY <1>1, <3>4, Places
        <5> QED BY <3>4, <4>1, <5>1
      <4>2. CASE i # K
        <5>1. i < K /\ K \in DOMAIN blocks
          BY <1>1, <3>1, <4>2
        <5> QED BY <1>1, <3>1, <3>4, <5>1 DEF BlockTypes, Inside
      <4> QED BY <4>1, <4>2
    <3>6. b.fn \in Nat /\ b.frame \in Nat /\ p.fn \in Nat /\ p.frame \in Nat
      BY <1>1, <3>1, <3>4, Places
    <3>7. OpensIn(p, c)
      BY <3>2, <3>4
    <3>8. b.fn <= c.fn /\ b.frame <= c.frame /\ (c.kind # "try" => b.frame < c.frame)
      BY <3>5, <3>6, <3>7 DEF OpensIn
    <3>9. b.since <= c.since
      BY <3>2, <3>3, <3>4
    <3>10. Inside(b, c)
      BY <3>8, <3>9 DEF Inside
    <3>11. Inside(blocks'[i], blocks'[j])
      BY <3>3, <3>4, <3>10 DEF Inside, GoesOn
    <3>12. j = i + 1 => OpensIn(blocks'[i], blocks'[j])
      <4>1. j = i + 1 => i = K
        BY <1>1, <3>1
      <4>2. i = K => OpensIn(blocks'[i], blocks'[j])
        BY <3>3, <3>4, <3>7 DEF OpensIn, GoesOn
      <4> QED BY <4>1, <4>2
    <3> QED BY <3>11, <3>12
  <2> QED BY <2>1, <2>2
<1>11. stacks' \in Seq(Range(stacks')) /\ Len(stacks') = Innermost'.fn
  BY DEF BlocksGrow, Innermost, Top, Last
<1>12. ASSUME NEW i \in DOMAIN blocks' PROVE blocks'[i].fn \in DOMAIN stacks'
  <2>1. CASE i \in 1..K
    <3>1. blocks'[i].fn = blocks[i].fn /\ blocks[i].fn \in DOMAIN stacks
      BY <1>1, <1>4, <2>1 DEF GoesOn, BlockTypes
    <3> QED BY <3>1 DEF BlocksGrow
  <2>2. CASE i \notin 1..K
    <3>1. L = K + 1 /\ i = L
      BY <1>2, <1>3, <2>2
    <3>2. PICK n \in Nat : n = Len(stacks') /\ DOMAIN stacks' = 1..n
      BY GrownPlaces
    <3>3. PICK l \in Nat : l = Len(stacks) /\ DOMAIN stacks = 1..l
      BY Places
    <3>4. n = blocks'[i].fn
      BY <1>2, <3>1, <3>2 DEF BlocksGrow
    <3>5. 1..l \subseteq 1..n
      BY <3>2, <3>3 DEF BlocksGrow
    <3>6. blocks[K].fn \in 1..l
      BY <1>1, <3>3 DEF BlockTypes
    <3>7. n # 0
      BY <3>5, <3>6
    <3> QED BY <3>2, <3>4, <3>7
  <2> QED BY <2>1, <2>2
<1> QED BY <1>5, <1>8, <1>9, <1>10, <1>11, <1>12 DEF BlockTypes

LEMMA FramesGrow ==
  ASSUME ListTypes, BlockTypes, FramesFollow, ListGrows, BlocksGrow
  PROVE  FramesFollow'
<1>1. SUFFICES ASSUME NEW v \in varMap', NEW i \in DOMAIN blocks', Of(v, i)'
               PROVE  v.frame = blocks'[i].frame
  BY DEF FramesFollow
<1>2. CASE v \in varMap
  <2>1. Old(i) /\ Of(v, i)
    BY <1>1, <1>2, OldStays
  <2> QED BY <1>2, <2>1 DEF FramesFollow, Old, BlocksGrow, GoesOn
<1>3. CASE v \notin varMap
  BY <1>1, <1>3, NewIsInnermost DEF ListGrows
<1> QED BY <1>2, <1>3

LEMMA TodoGrows ==
  ASSUME ListTypes, BlockTypes, TodoGiven, ListGrows, BlocksGrow
  PROVE  TodoGiven'
<1>1. SUFFICES ASSUME NEW i \in DOMAIN blocks', NEW fn \in Range(blocks'[i].todo)
               PROVE  /\ blocks'[i].since < fn.id /\ fn.id <= decls' /\ fn.id \in Nat
                      /\ \A v \in varMap' : v.id = fn.id => v.code = FnCode(fn)
  BY DEF TodoGiven
<1>2. decls \in Nat /\ decls' \in Nat /\ decls <= decls' /\ blocks'[i].since \in 0..decls
  BY GrownPlaces DEF ListGrows
<1>3. CASE Old(i) /\ fn \in Range(blocks[i].todo)
  <2>1. /\ blocks[i].since < fn.id /\ fn.id <= decls /\ fn.id \in Nat
        /\ \A v \in varMap : v.id = fn.id => v.code = FnCode(fn)
    BY <1>3 DEF TodoGiven, Old
  <2>2. blocks'[i].since = blocks[i].since
    BY <1>3 DEF BlocksGrow, GoesOn, Old
  <2>3. ASSUME NEW v \in varMap' \ varMap PROVE v.id # fn.id
    <3>1. v.id \in decls + 1..decls'
      BY DEF ListGrows
    <3> QED BY <1>2, <2>1, <3>1
  <2>4. fn.id <= decls'
    BY <1>2, <2>1
  <2> QED BY <2>1, <2>2, <2>3, <2>4
<1>4. CASE ~ (Old(i) /\ fn \in Range(blocks[i].todo))
  <2>1. i = Top
    BY <1>4, GrownPlaces DEF BlocksGrow, GoesOn, Old
  <2>2. /\ fn.id \in decls + 1..decls'
        /\ \A v \in varMap' \ varMap : v.id = fn.id => v.code = FnCode(fn)
    BY <1>1, <1>4, <2>1 DEF BlocksGrow
  <2>3. ASSUME NEW v \in varMap PROVE v.id # fn.id
    <3>1. v.id \in 1..decls
      BY DEF ListTypes
    <3> QED BY <1>2, <2>2, <3>1
  <2>4. blocks'[i].since < fn.id /\ fn.id <= decls' /\ fn.id \in Nat
    BY <1>2, <2>2
  <2> QED BY <2>2, <2>3, <2>4
<1> QED BY <1>3, <1>4

LEMMA MeantIsListedGrows ==
  ASSUME ListTypes, BlockTypes, MeantIsListed, ListGrows, BlocksGrow, MeaningGrows
  PROVE  MeantIsListed'
<1>1. SUFFICES ASSUME NEW i \in DOMAIN blocks', NEW n \in DOMAIN blocks'[i].env
               PROVE  \/ blocks'[i].env[n] \in strays'
                      \/ \E v \in varMap' : v.id = blocks'[i].env[n] /\ v.name = n /\ Of(v, i)'
  BY DEF MeantIsListed
<1>2. CASE Old(i) /\ n \in DOMAIN blocks[i].env /\ blocks'[i].env[n] = blocks[i].env[n]
  <2>1. CASE blocks[i].env[n] \in strays
    BY <1>2, <2>1 DEF ListGrows
  <2>2. CASE blocks[i].env[n] \notin strays
    <3>1. PICK v \in varMap : v.id = blocks[i].env[n] /\ v.name = n /\ Of(v, i)
      BY <1>2, <2>2 DEF MeantIsListed, Old
    <3>2. Of(v, i)'
      BY <1>2, <3>1, OldStays
    <3> QED BY <1>2, <3>1, <3>2 DEF ListGrows
  <2> QED BY <2>1, <2>2
<1>3. CASE i = Top /\ FreshlyMeant(blocks'[i], n)
  <2>1. PICK v \in varMap' \ varMap : v.id = blocks'[i].env[n] /\ v.name = n
    BY <1>3 DEF FreshlyMeant
  <2>2. Of(v, i)'
    BY <1>3, NewIsInnermost
  <2> QED BY <2>1, <2>2
<1> QED BY <1>1, <1>2, <1>3 DEF MeaningGrows

LEMMA ListedIsMeantGrows ==
  ASSUME ListTypes, BlockTypes, ListedIsMeant, ListGrows, BlocksGrow, MeaningGrows
  PROVE  ListedIsMeant'
<1>1. SUFFICES ASSUME NEW i \in DOMAIN blocks', NEW v \in varMap', Newest(v, i)'
               PROVE  \/ v.id \in strays'
                      \/ /\ v.name \in DOMAIN blocks'[i].env
                         /\ \/ blocks'[i].env[v.name] = v.id
                            \/ blocks'[i].kind # "try" /\ blocks'[i].env[v.name] \in strays'
  BY DEF ListedIsMeant
<1>2. Of(v, i)' /\ \A w \in varMap' : w.name = v.name /\ Of(w, i)' => w.id <= v.id
  BY <1>1 DEF Newest
<1>3. CASE v \in varMap
  <2>1. Old(i) /\ Of(v, i)
    BY <1>2, <1>3, OldStays
  <2>2. Newest(v, i)
    BY <1>2, <2>1, OldStays DEF Newest, ListGrows
  <2>3. \/ v.id \in strays
        \/ /\ v.name \in DOMAIN blocks[i].env
           /\ \/ blocks[i].env[v.name] = v.id
              \/ blocks[i].kind # "try" /\ blocks[i].env[v.name] \in strays
    BY <1>3, <2>1, <2>2 DEF ListedIsMeant, Old
  <2>4. blocks'[i].kind = blocks[i].kind /\ strays \subseteq strays'
    BY <2>1 DEF BlocksGrow, GoesOn, ListGrows, Old
  <2>5. ASSUME i = Top, NEW w \in varMap' \ varMap, w.name = v.name PROVE FALSE
    <3>1. w.id <= v.id
      BY <1>2, <2>5, NewIsInnermost
    <3>2. w.id \in decls + 1..decls' /\ v.id \in 1..decls /\ decls \in Nat
      BY <1>3 DEF ListGrows, ListTypes
    <3> QED BY <3>1, <3>2
  <2>6. v.name \in DOMAIN blocks[i].env => v.name \in DOMAIN blocks'[i].env /\ blocks'[i].env[v.name] = blocks[i].env[v.name]
    BY <2>1, <2>5 DEF MeaningGrows, Old
  <2> QED BY <2>3, <2>4, <2>6
<1>4. CASE v \notin varMap
  <2>1. i = Top
    BY <1>2, <1>4, NewIsInnermost
  <2>2. \A w \in varMap' \ varMap : w.name = v.name => w.id <= v.id
    BY <1>2, <2>1, NewIsInnermost
  <2> QED BY <1>4, <2>1, <2>2 DEF MeaningGrows
<1> QED BY <1>3, <1>4

LEMMA MeantIsPrintedGrows ==
  ASSUME ListTypes, BlockTypes, MeantIsListed, MeantIsPrinted, ListGrows, BlocksGrow, MeaningGrows, PrintGrows
  PROVE  MeantIsPrinted'
<1>1. SUFFICES ASSUME NEW i \in DOMAIN blocks', NEW n \in DOMAIN blocks'[i].env, NEW v \in varMap',
                      v.id = blocks'[i].env[n], v.id \notin strays', Of(v, i)'
               PROVE  \/ v.id \in Ahead(blocks'[i])
                      \/ v.code \in DOMAIN blocks'[i].printed /\ blocks'[i].printed[v.code] = v.id
  BY DEF MeantIsPrinted
<1>2. ListTypes'
  BY ListTypesGrow
<1>3. CASE Old(i) /\ n \in DOMAIN blocks[i].env /\ blocks'[i].env[n] = blocks[i].env[n] /\ v \in varMap
  <2>1. Of(v, i) /\ v.id \notin strays
    BY <1>1, <1>3, OldStays DEF ListGrows
  <2>2. \/ v.id \in Ahead(blocks[i])
        \/ v.code \in DOMAIN blocks[i].printed /\ blocks[i].printed[v.code] = v.id
    BY <1>1, <1>3, <2>1 DEF MeantIsPrinted, Old
  <2> QED BY <1>3, <2>2 DEF PrintGrows, Old
<1>4. CASE Old(i) /\ n \in DOMAIN blocks[i].env /\ blocks'[i].env[n] = blocks[i].env[n] /\ v \notin varMap
  <2>1. blocks[i].env[n] \notin strays
    BY <1>1, <1>4 DEF ListGrows
  <2>2. PICK w \in varMap : w.id = v.id
    BY <1>1, <1>4, <2>1 DEF MeantIsListed, Old
  <2>3. w = v
    BY <1>2, <2>2 DEF ListTypes, ListGrows
  <2> QED BY <1>4, <2>2, <2>3
<1>5. CASE i = Top /\ FreshlyMeant(blocks'[i], n)
  <2>1. PICK w \in varMap' \ varMap : /\ w.id = blocks'[i].env[n] /\ w.name = n
                                      /\ \/ w.id \in Ahead(blocks'[i])
                                         \/ w.code \in DOMAIN blocks'[i].printed /\ blocks'[i].printed[w.code] = w.id
    BY <1>5 DEF FreshlyMeant
  <2>2. w = v
    BY <1>1, <1>2, <2>1 DEF ListTypes
  <2> QED BY <2>1, <2>2
<1> QED BY <1>1, <1>3, <1>4, <1>5 DEF MeaningGrows

LEMMA PrintedAnewGrows ==
  ASSUME ListTypes, BlockTypes, PrintedAnew, ListGrows, BlocksGrow, PrintGrows
  PROVE  PrintedAnew'
<1>1. SUFFICES ASSUME NEW v \in varMap', NEW i \in DOMAIN blocks', v.id <= blocks'[i].since,
                      v.code \in DOMAIN blocks'[i].printed
               PROVE  FALSE
  BY DEF PrintedAnew
<1>2. v \in varMap
  <2>1. ASSUME v \notin varMap PROVE FALSE
    <3>1. v.id \in decls + 1..decls' /\ blocks'[i].since \in 0..decls /\ decls \in Nat
      BY <2>1, GrownPlaces DEF ListGrows
    <3> QED BY <1>1, <3>1
  <2> QED BY <2>1
<1>3. Old(i) /\ v.code \in DOMAIN blocks[i].printed
  BY <1>1, <1>2 DEF PrintGrows
<1>4. v.id <= blocks[i].since
  BY <1>1, <1>3 DEF BlocksGrow, GoesOn, Old
<1> QED BY <1>2, <1>3, <1>4 DEF PrintedAnew, Old

LEMMA StacksGrow ==
  ASSUME ListTypes, BlockTypes, StacksFollow, ListGrows, BlocksGrow
  PROVE  StacksFollow'
<1>1. BlockTypes' /\ decls \in Nat
  BY BlockTypesGrow DEF ListTypes
<1>2. ASSUME NEW i \in DOMAIN blocks', NEW code \in stacks'[blocks'[i].fn]
      PROVE  \E v \in varMap' : v.code = code /\ v.id <= blocks'[i].since
  <2>1. blocks'[i].fn \in DOMAIN stacks'
    BY <1>1 DEF BlockTypes
  <2>2. CASE Old(i)
    <3>1. blocks'[i].fn = blocks[i].fn /\ blocks'[i].since = blocks[i].since /\ blocks[i].fn \in DOMAIN stacks
      BY <2>2 DEF BlocksGrow, GoesOn, BlockTypes, Old
    <3>2. stacks'[blocks[i].fn] = stacks[blocks[i].fn]
      BY <3>1 DEF BlocksGrow
    <3>3. PICK v \in varMap : v.code = code /\ v.id <= blocks[i].since
      BY <1>2, <2>2, <3>1, <3>2 DEF StacksFollow, Old
    <3> QED BY <3>1, <3>3 DEF ListGrows
  <2>3. CASE ~ Old(i)
    <3>1. i = Top /\ Top = Depth + 1 /\ Depth \in DOMAIN blocks /\ Depth \in Nat
      BY <2>3, GrownPlaces
    <3>2. blocks'[i].since = decls /\ OpensIn(blocks[Depth], blocks'[i])
      BY <3>1 DEF BlocksGrow, Innermost, Depth, Last
    <3>3. CASE stacks'[blocks'[i].fn] = varStack(varMap)
      BY <1>2, <3>2, <3>3 DEF varStack, ListTypes, ListGrows
    <3>4. CASE stacks'[blocks'[i].fn] # varStack(varMap)
      <4>1. PICK g : g = blocks'[i].fn /\ g \in DOMAIN stacks /\ stacks'[g] = stacks[g]
        BY <2>1, <3>4 DEF BlocksGrow
      <4>2. PICK n \in Nat : n = Len(stacks) /\ DOMAIN stacks = 1..n
        BY Places
      <4>3. n = blocks[Depth].fn
        BY <4>2 DEF BlockTypes, Innermost, Depth, Last
      <4>4. g = n
        BY <3>2, <4>1, <4>2, <4>3 DEF OpensIn
      <4>5. PICK v \in varMap : v.code = code /\ v.id <= blocks[Depth].since
        BY <1>2, <3>1, <4>1, <4>3, <4>4 DEF StacksFollow
      <4>6. v.id <= decls
        BY DEF ListTypes
      <4> QED BY <3>2, <4>5, <4>6 DEF ListGrows
    <3> QED BY <3>3, <3>4
  <2> QED BY <2>2, <2>3
<1>3. ASSUME NEW i \in DOMAIN blocks', NEW g \in DOMAIN stacks', NEW v \in varMap', blocks'[i].fn < g, Of(v, i)'
      PROVE  v.code \in stacks'[g]
  <2>1. CASE v \in varMap
    <3>1. Old(i) /\ Of(v, i) /\ blocks'[i].fn = blocks[i].fn
      BY <1>3, <2>1, OldStays DEF BlocksGrow, GoesOn, Old
    <3>2. CASE g \in DOMAIN stacks /\ stacks'[g] = stacks[g]
      BY <1>3, <2>1, <3>1, <3>2 DEF StacksFollow, Old
    <3>3. CASE stacks'[g] = varStack(varMap)
      BY <2>1, <3>3 DEF varStack
    <3> QED BY <3>2, <3>3 DEF BlocksGrow
  <2>2. CASE v \notin varMap
    <3>1. i = Top
      BY <1>3, <2>2, NewIsInnermost
    <3>2. PICK n \in Nat : n = Len(stacks') /\ DOMAIN stacks' = 1..n
      BY GrownPlaces
    <3>3. n = blocks'[i].fn
      BY <3>1, <3>2 DEF BlocksGrow
    <3> QED BY <1>3, <3>2, <3>3
  <2> QED BY <2>1, <2>2
<1> QED BY <1>2, <1>3 DEF StacksFollow

LEMMA GrowthKeeps ==
  ASSUME ScopesInvariant, Grows
  PROVE  ScopesInvariant'
<1>1. ListTypes' /\ BlockTypes' /\ FramesFollow' /\ TodoGiven' /\ StacksFollow'
  BY ListTypesGrow, BlockTypesGrow, FramesGrow, TodoGrows, StacksGrow DEF ScopesInvariant, Grows
<1>2. MeantIsListed' /\ ListedIsMeant' /\ MeantIsPrinted' /\ PrintedAnew'
  BY MeantIsListedGrows, ListedIsMeantGrows, MeantIsPrintedGrows, PrintedAnewGrows DEF ScopesInvariant, Grows
<1> QED BY <1>1, <1>2 DEF ScopesInvariant

----------------------------------------------------------------------------
(* The innermost block is closed. *)
LEMMA ClosedPlaces ==
  ASSUME ListTypes, BlockTypes, Close, NEW K, K = Depth
  PROVE  /\ K \in Nat /\ K > 1 /\ DOMAIN blocks = 1..K /\ DOMAIN blocks' = 1..K - 1 /\ Len(blocks') = K - 1
         /\ blocks' \in Seq(Range(blocks')) /\ \A i \in 1..K - 1 : blocks'[i] = blocks[i]
         /\ Innermost = blocks[K]
<1>1. K \in Nat /\ K > 1 /\ DOMAIN blocks = 1..K /\ blocks # <<>> /\ blocks \in Seq(Range(blocks)) /\ K = Len(blocks)
  <2>1. K > 1
    BY DEF Close
  <2> QED BY <2>1, Places DEF BlockTypes, Depth
<1>2. PICK F, t : F = Range(blocks) /\ t = blocks'
  OBVIOUS
<1>3. t = Butlast(blocks) /\ blocks \in Seq(F)
  BY <1>1, <1>2 DEF Close, Front, Butlast
<1>4. t \in Seq(F) /\ Len(t) = Len(blocks) - 1 /\ \A i \in 1..Len(t) : t[i] = blocks[i]
  BY <1>1, <1>3, OneLessOnTop
<1>5. t \in Seq(Range(t)) /\ DOMAIN t = 1..Len(t)
  BY <1>4, OwnRange, LenProperties
<1>6. Innermost = blocks[K]
  BY <1>1 DEF Innermost, Last
<1> QED BY <1>1, <1>2, <1>4, <1>5, <1>6

(* All but the variables of the block stay, which go to the block around a try. *)
LEMMA ClosedList ==
  ASSUME ListTypes, BlockTypes, FramesFollow, Close, NEW K, K = Depth
  PROVE  /\ varMap' \subseteq varMap
         /\ \A v \in varMap, i \in 1..K - 1 : Of(v, i) => v \in varMap'
         /\ \A v \in varMap' : Of(v, K) => blocks[K].kind = "try"
         /\ blocks[K].kind = "try" => varMap' = varMap
<1>1. /\ K \in Nat /\ K > 1 /\ DOMAIN blocks = 1..K /\ Innermost = blocks[K] /\ K \in 1..K /\ 1..K - 1 \subseteq 1..K
  BY ClosedPlaces
<1>2. blocks[K].kind = "try" => varMap' = varMap
  BY <1>1 DEF Close
<1>3. blocks[K].kind # "try" => varMap' = {v \in varMap : v.frame # blocks[K].frame}
  BY <1>1 DEF Close, restore
<1>4. ASSUME NEW v \in varMap, NEW i \in 1..K - 1, Of(v, i), blocks[K].kind # "try" PROVE v \in varMap'
  <2>1. i < K /\ i \in DOMAIN blocks /\ K \in DOMAIN blocks
    BY <1>1
  <2>2. blocks[i].frame < blocks[K].frame
    BY <1>4, <2>1 DEF BlockTypes, Inside
  <2>3. v.frame = blocks[i].frame
    BY <1>4, <2>1 DEF FramesFollow
  <2>4. blocks[i].frame \in Nat /\ blocks[K].frame \in Nat
    BY <2>1, Places
  <2> QED BY <1>3, <1>4, <2>2, <2>3, <2>4
<1>5. ASSUME NEW v \in varMap', Of(v, K), blocks[K].kind # "try" PROVE FALSE
  <2>1. v \in varMap /\ v.frame # blocks[K].frame
    BY <1>3, <1>5
  <2>2. v.frame = blocks[K].frame
    BY <1>1, <1>5, <2>1 DEF FramesFollow
  <2> QED BY <2>1, <2>2
<1> QED BY <1>2, <1>3, <1>4, <1>5

LEMMA ClosedOf ==
  ASSUME ListTypes, BlockTypes, FramesFollow, Close, NEW K, K = Depth, NEW v \in varMap', NEW i \in 1..K - 1
  PROVE  Of(v, i)' <=> Of(v, i) \/ (i = K - 1 /\ blocks[K].kind = "try" /\ Of(v, K))
<1>1. /\ K \in Nat /\ K > 1 /\ DOMAIN blocks = 1..K /\ DOMAIN blocks' = 1..K - 1
      /\ \A j \in 1..K - 1 : blocks'[j] = blocks[j]
  BY ClosedPlaces
<1>2. v \in varMap /\ (Of(v, K) => blocks[K].kind = "try")
  BY ClosedList
<1>3. /\ v.id \in Nat /\ blocks[K].since \in Nat /\ blocks[i].since \in Nat
      /\ blocks[i].since <= blocks[K].since
  <2>1. i \in DOMAIN blocks /\ K \in DOMAIN blocks /\ i < K
    BY <1>1
  <2>2. v.id \in Nat
    BY <1>2 DEF ListTypes
  <2>3. blocks[K].since \in Nat /\ blocks[i].since \in Nat
    BY <2>1, Places
  <2>4. blocks[i].since <= blocks[K].since
    BY <2>1 DEF BlockTypes, Inside
  <2> QED BY <2>2, <2>3, <2>4
<1>4. Of(v, i)' <=> blocks[i].since < v.id /\ \A j \in 1..K - 1 : i < j => v.id <= blocks[j].since
  BY <1>1 DEF Of
<1>5. Of(v, i) <=> Of(v, i)' /\ v.id <= blocks[K].since
  <2>1. i < K /\ \A j \in 1..K : j = K \/ j \in 1..K - 1
    BY <1>1
  <2>2. 1..K - 1 \subseteq 1..K /\ K \in 1..K
    BY <1>1
  <2>3. Of(v, i) <=> blocks[i].since < v.id /\ \A j \in 1..K : i < j => v.id <= blocks[j].since
    BY <1>1 DEF Of
  <2> QED BY <1>4, <2>1, <2>2, <2>3
<1>6. Of(v, K) <=> blocks[K].since < v.id
  BY <1>1 DEF Of
<1>7. Of(v, i)' /\ blocks[K].since < v.id => i = K - 1
  <2>1. SUFFICES ASSUME Of(v, i)', blocks[K].since < v.id, i # K - 1 PROVE FALSE
    OBVIOUS
  <2>2. i < K - 1 /\ K - 1 \in 1..K - 1
    <3>1. i \in 1..K - 1 /\ i # K - 1 /\ K \in Nat /\ K > 1
      BY <1>1, <2>1
    <3> QED BY ONLY <3>1
  <2>3. PICK m \in 1..K - 1 : m = K - 1 /\ i < m /\ m < K
    <3>1. K \in Nat
      BY <1>1
    <3> QED BY ONLY <2>2, <3>1
  <2>4. v.id <= blocks[m].since
    BY <1>4, <2>1, <2>3
  <2>5. m \in DOMAIN blocks /\ K \in DOMAIN blocks
    BY <1>1, <2>3
  <2>6. blocks[m].since <= blocks[K].since /\ blocks[m].since \in Nat
    BY <2>3, <2>5, Places DEF BlockTypes, Inside
  <2> QED BY <1>3, <2>1, <2>4, <2>6
<1>8. i = K - 1 /\ Of(v, K) => Of(v, i)'
  <2>1. SUFFICES ASSUME i = K - 1, Of(v, K) PROVE Of(v, i)'
    OBVIOUS
  <2>2. \A j \in 1..K - 1 : ~ (i < j)
    BY <1>1, <2>1
  <2>3. blocks[i].since < v.id
    BY <1>3, <1>6, <2>1
  <2> QED BY <1>4, <2>2, <2>3
<1>9. v.id <= blocks[K].since \/ blocks[K].since < v.id
  BY <1>3
<1> QED BY <1>2, <1>5, <1>6, <1>7, <1>8, <1>9

LEMMA BlockTypesClose ==
  ASSUME ListTypes, BlockTypes, Close
  PROVE  BlockTypes'
<1>1. PICK K : K = Depth
  OBVIOUS
<1>2. /\ K \in Nat /\ K > 1 /\ DOMAIN blocks = 1..K /\ DOMAIN blocks' = 1..K - 1 /\ Len(blocks') = K - 1
      /\ blocks' \in Seq(Range(blocks')) /\ Innermost = blocks[K]
  BY <1>1, ClosedPlaces
<1>3. \A i \in 1..K - 1 : blocks'[i] = blocks[i] /\ i \in DOMAIN blocks
  BY <1>1, <1>2, ClosedPlaces
<1>4. PICK L \in Nat : L = K - 1 /\ L # 0 /\ L \in 1..K - 1 /\ 1 \in 1..K - 1 /\ L < K /\ L + 1 = K
  BY <1>2
<1>5. L \in DOMAIN blocks /\ K \in DOMAIN blocks /\ blocks'[L] = blocks[L]
  BY <1>2, <1>3, <1>4
<1>6. Depth' = L /\ Innermost' = blocks[L]
  BY <1>2, <1>4, <1>5 DEF Depth, Innermost, Last
<1>7. ASSUME NEW i \in DOMAIN blocks' PROVE IsBlock(blocks'[i]) /\ blocks'[i].since <= decls'
  BY <1>2, <1>3 DEF BlockTypes, Close
<1>8. blocks'[1].since = 0
  BY <1>3, <1>4 DEF BlockTypes
<1>9. ASSUME NEW i \in DOMAIN blocks', NEW j \in DOMAIN blocks', i < j
      PROVE  Inside(blocks'[i], blocks'[j]) /\ (j = i + 1 => OpensIn(blocks'[i], blocks'[j]))
  BY <1>2, <1>3, <1>9 DEF BlockTypes
<1>10. PICK n \in Nat : n = Len(stacks) /\ DOMAIN stacks = 1..n
  BY Places
<1>11. n = blocks[K].fn /\ OpensIn(blocks[L], blocks[K]) /\ blocks[L].fn \in 1..n
  BY <1>2, <1>4, <1>5, <1>10 DEF BlockTypes
<1>12. \A i \in DOMAIN blocks' : blocks'[i].fn <= blocks[L].fn /\ blocks'[i].fn \in 1..n
  <2>1. SUFFICES ASSUME NEW i \in DOMAIN blocks' PROVE blocks[i].fn <= blocks[L].fn /\ blocks[i].fn \in 1..n
    BY <1>2, <1>3
  <2>2. i = L \/ i < L
    BY <1>2, <1>4
  <2>3. i \in DOMAIN blocks
    BY <1>2, <1>3
  <2>4. blocks[i].fn \in 1..n
    BY <1>10, <2>3 DEF BlockTypes
  <2>5. i < L => blocks[i].fn <= blocks[L].fn
    BY <1>5, <2>3 DEF BlockTypes, Inside
  <2> QED BY <1>11, <2>2, <2>4, <2>5
<1>13. stacks' \in Seq(Range(stacks')) /\ Len(stacks') = blocks[L].fn /\ DOMAIN stacks' = 1..Len(stacks')
  <2>1. CASE blocks[K].kind = "fn"
    <3>1. PICK F, s, t : F = Range(stacks) /\ s = stacks /\ t = stacks'
      OBVIOUS
    <3>2. s \in Seq(F) /\ s # <<>> /\ t = Butlast(s)
      <4>1. stacks' = Front(stacks) /\ stacks \in Seq(Range(stacks))
        BY <1>2, <2>1 DEF Close, BlockTypes
      <4>2. stacks # <<>>
        BY <1>10, <1>11, <4>1, EmptySeq
      <4> QED BY <3>1, <4>1, <4>2 DEF Front, Butlast
    <3>3. t \in Seq(F) /\ Len(t) = Len(s) - 1
      BY <3>2, OneLessOnTop
    <3>4. t \in Seq(Range(t)) /\ DOMAIN t = 1..Len(t)
      BY <3>3, OwnRange, LenProperties
    <3>5. n = blocks[L].fn + 1
      BY <1>11, <2>1 DEF OpensIn
    <3>6. blocks[L].fn = n - 1
      BY <1>11, <3>5
    <3> QED BY <1>10, <3>1, <3>3, <3>4, <3>6
  <2>2. CASE blocks[K].kind # "fn"
    <3>1. stacks' = stacks /\ n = blocks[L].fn
      BY <1>2, <1>11, <2>2 DEF Close, OpensIn
    <3> QED BY <1>10, <3>1 DEF BlockTypes
  <2> QED BY <2>1, <2>2
<1>14. ASSUME NEW i \in DOMAIN blocks' PROVE blocks'[i].fn \in DOMAIN stacks'
  BY <1>11, <1>12, <1>13
<1>15. Depth' # 0 /\ Len(stacks') = Innermost'.fn
  BY <1>4, <1>6, <1>13
<1> QED BY <1>2, <1>7, <1>8, <1>9, <1>13, <1>14, <1>15 DEF BlockTypes

(* What a function may use stays so: the stacks of the functions that are still walked are the same. *)
LEMMA ClosedStacks ==
  ASSUME ListTypes, BlockTypes, Close
  PROVE  /\ \A g \in DOMAIN stacks' : g \in DOMAIN stacks /\ stacks'[g] = stacks[g]
         /\ \A i \in DOMAIN blocks' : blocks'[i].fn \in DOMAIN stacks'
<1>1. \A i \in DOMAIN blocks' : blocks'[i].fn \in DOMAIN stacks'
  BY BlockTypesClose DEF BlockTypes
<1>2. CASE Innermost.kind = "fn"
  <2>1. PICK F, s, t : F = Range(stacks) /\ s = stacks /\ t = stacks'
    OBVIOUS
  <2>2. s \in Seq(F) /\ t = Butlast(s)
    BY <1>2, <2>1 DEF Close, BlockTypes, Front, Butlast
  <2>3. s # <<>>
    <3>1. blocks[1].fn \in DOMAIN stacks
      BY Places DEF BlockTypes
    <3> QED BY <2>1, <2>2, <3>1, EmptySeq, LenProperties, Places
  <2>4. t \in Seq(F) /\ Len(t) = Len(s) - 1 /\ \A i \in 1..Len(t) : t[i] = s[i]
    BY <2>2, <2>3, OneLessOnTop
  <2>5. PICK n \in Nat : n = Len(s) /\ DOMAIN s = 1..n
    BY <2>1, Places
  <2>6. DOMAIN t = 1..n - 1 /\ \A i \in 1..n - 1 : t[i] = s[i]
    BY <2>4, <2>5, LenProperties
  <2>7. 1..n - 1 \subseteq 1..n
    OBVIOUS
  <2> QED BY <1>1, <2>1, <2>5, <2>6, <2>7
<1>3. CASE Innermost.kind # "fn"
  BY <1>1, <1>3 DEF Close
<1> QED BY <1>2, <1>3

LEMMA CloseKeeps ==
  ASSUME ScopesInvariant, Close
  PROVE  ScopesInvariant'
<1>1. /\ ListTypes /\ BlockTypes /\ FramesFollow /\ TodoGiven /\ MeantIsListed /\ ListedIsMeant /\ MeantIsPrinted
      /\ PrintedAnew /\ StacksFollow
  BY DEF ScopesInvariant
<1>2. PICK K : K = Depth
  OBVIOUS
<1>3. /\ K \in Nat /\ K > 1 /\ DOMAIN blocks = 1..K /\ DOMAIN blocks' = 1..K - 1 /\ Innermost = blocks[K]
      /\ K \in DOMAIN blocks
  BY <1>1, <1>2, ClosedPlaces
<1>4. \A i \in 1..K - 1 : blocks'[i] = blocks[i] /\ i \in DOMAIN blocks
  <2>1. 1..K - 1 \subseteq 1..K
    BY <1>3
  <2> QED BY <1>1, <1>2, <1>3, <2>1, ClosedPlaces
<1>5. varMap' \subseteq varMap /\ (blocks[K].kind = "try" => varMap' = varMap)
  BY <1>1, <1>2, ClosedList
<1>6. \A v \in varMap : \A i \in 1..K - 1 : Of(v, i) => v \in varMap'
  BY <1>1, <1>2, ClosedList
<1>7. \A v \in varMap' : \A i \in 1..K - 1 : Of(v, i)' <=> Of(v, i) \/ (i = K - 1 /\ blocks[K].kind = "try" /\ Of(v, K))
  BY <1>1, <1>2, ClosedOf
<1>8. /\ decls' = decls /\ strays \subseteq strays'
      /\ blocks[K].kind = "try" => Range(blocks[K].env) \subseteq strays'
  BY <1>3 DEF Close
<1>9. ListTypes'
  <2>1. IsFiniteSet(varMap')
    BY <1>1, <1>5, FS_Subset DEF ListTypes
  <2> QED BY <1>1, <1>5, <1>8, <2>1 DEF ListTypes
<1>10. BlockTypes'
  BY <1>1, BlockTypesClose
<1>11. FramesFollow'
  <2>1. SUFFICES ASSUME NEW v \in varMap', NEW i \in 1..K - 1, Of(v, i)' PROVE v.frame = blocks[i].frame
    BY <1>3, <1>4 DEF FramesFollow
  <2>2. CASE Of(v, i)
    BY <1>1, <1>4, <1>5, <2>2 DEF FramesFollow
  <2>3. CASE i = K - 1 /\ blocks[K].kind = "try" /\ Of(v, K)
    <3>1. v.frame = blocks[K].frame
      BY <1>1, <1>3, <1>5, <2>3 DEF FramesFollow
    <3>2. OpensIn(blocks[i], blocks[K])
      <4>1. i < K /\ K = i + 1 /\ i \in DOMAIN blocks
        BY <1>3, <1>4, <2>3
      <4> QED BY <1>1, <1>3, <4>1 DEF BlockTypes
    <3> QED BY <2>3, <3>1, <3>2 DEF OpensIn
  <2> QED BY <1>7, <2>1, <2>2, <2>3
<1>12. TodoGiven'
  BY <1>1, <1>3, <1>4, <1>5, <1>8 DEF TodoGiven
<1>13. MeantIsListed'
  <2>1. SUFFICES ASSUME NEW i \in 1..K - 1, NEW n \in DOMAIN blocks[i].env, blocks[i].env[n] \notin strays
                 PROVE  \E v \in varMap' : v.id = blocks[i].env[n] /\ v.name = n /\ Of(v, i)'
    BY <1>3, <1>4, <1>8 DEF MeantIsListed
  <2>2. PICK v \in varMap : v.id = blocks[i].env[n] /\ v.name = n /\ Of(v, i)
    BY <1>1, <1>4, <2>1 DEF MeantIsListed
  <2>3. v \in varMap' /\ Of(v, i)'
    BY <1>6, <1>7, <2>2
  <2> QED BY <2>2, <2>3
<1>14. ListedIsMeant'
  <2>1. SUFFICES ASSUME NEW i \in 1..K - 1, NEW v \in varMap', Newest(v, i)'
                 PROVE  \/ v.id \in strays'
                        \/ /\ v.name \in DOMAIN blocks[i].env
                           /\ \/ blocks[i].env[v.name] = v.id
                              \/ blocks[i].kind # "try" /\ blocks[i].env[v.name] \in strays'
    BY <1>3, <1>4 DEF ListedIsMeant
  <2>2. Of(v, i)' /\ \A w \in varMap' : w.name = v.name /\ Of(w, i)' => w.id <= v.id
    BY <2>1 DEF Newest
  <2>3. v \in varMap /\ i \in DOMAIN blocks
    BY <1>4, <1>5
  <2>4. CASE Of(v, i)
    <3>1. Newest(v, i)
      <4>1. \A w \in varMap : Of(w, i) => w \in varMap' /\ Of(w, i)'
        BY <1>6, <1>7
      <4> QED BY <2>2, <2>4, <4>1 DEF Newest
    <3> QED BY <1>1, <1>8, <2>3, <3>1 DEF ListedIsMeant
  <2>5. CASE i = K - 1 /\ blocks[K].kind = "try" /\ Of(v, K)
    <3>1. Newest(v, K)
      <4>1. \A w \in varMap : Of(w, K) => w \in varMap' /\ Of(w, i)'
        BY <1>5, <1>7, <2>5
      <4> QED BY <2>2, <2>5, <4>1 DEF Newest
    <3>2. v.id \in strays \/ (v.name \in DOMAIN blocks[K].env /\ blocks[K].env[v.name] = v.id)
      BY <1>1, <1>3, <2>3, <2>5, <3>1 DEF ListedIsMeant
    <3>3. v.name \in DOMAIN blocks[K].env /\ blocks[K].env[v.name] = v.id => v.id \in Range(blocks[K].env)
      BY DEF Range
    <3> QED BY <1>8, <2>5, <3>2, <3>3
  <2> QED BY <1>7, <2>2, <2>4, <2>5
<1>15. MeantIsPrinted'
  <2>1. SUFFICES ASSUME NEW i \in 1..K - 1, NEW n \in DOMAIN blocks[i].env, NEW v \in varMap',
                        v.id = blocks[i].env[n], v.id \notin strays', Of(v, i)'
                 PROVE  \/ v.id \in Ahead(blocks[i])
                        \/ v.code \in DOMAIN blocks[i].printed /\ blocks[i].printed[v.code] = v.id
    BY <1>3, <1>4 DEF MeantIsPrinted
  <2>2. PICK w \in varMap : w.id = blocks[i].env[n] /\ Of(w, i)
    BY <1>1, <1>4, <1>8, <2>1 DEF MeantIsListed
  <2>3. w = v
    BY <1>1, <1>5, <2>1, <2>2 DEF ListTypes
  <2> QED BY <1>1, <1>4, <1>8, <2>1, <2>2, <2>3 DEF MeantIsPrinted
<1>16. PrintedAnew'
  BY <1>1, <1>3, <1>4, <1>5 DEF PrintedAnew
<1>17. StacksFollow'
  <2>1. \A g \in DOMAIN stacks' : g \in DOMAIN stacks /\ stacks'[g] = stacks[g]
    BY <1>1, ClosedStacks
  <2>2. \A i \in 1..K - 1 : blocks[i].fn \in DOMAIN stacks'
    BY <1>1, <1>3, <1>4, ClosedStacks
  <2>3. ASSUME NEW i \in 1..K - 1, NEW code \in stacks'[blocks[i].fn]
        PROVE  \E v \in varMap' : v.code = code /\ v.id <= blocks[i].since
    <3>1. PICK v \in varMap : v.code = code /\ v.id <= blocks[i].since
      BY <1>1, <1>4, <2>1, <2>2, <2>3 DEF StacksFollow
    <3>2. PICK j \in DOMAIN blocks : Of(v, j)
      BY <1>1, HasBlock
    <3>3. j # K
      <4>1. SUFFICES ASSUME Of(v, K) PROVE FALSE
        BY <3>2
      <4>2. i < K /\ i \in DOMAIN blocks
        BY <1>3, <1>4
      <4>3. blocks[i].since <= blocks[K].since /\ blocks[K].since < v.id
        BY <1>1, <1>3, <4>1, <4>2 DEF BlockTypes, Inside, Of
      <4>4. v.id \in Nat /\ blocks[i].since \in Nat /\ blocks[K].since \in Nat
        BY <1>1, <1>3, <4>2, Places DEF ListTypes
      <4> QED BY <3>1, <4>3, <4>4
    <3>4. j \in 1..K - 1
      BY <1>3, <3>2, <3>3
    <3> QED BY <1>6, <3>1, <3>2, <3>4
  <2>4. ASSUME NEW i \in 1..K - 1, NEW g \in DOMAIN stacks', NEW v \in varMap', blocks[i].fn < g, Of(v, i)'
        PROVE  v.code \in stacks'[g]
    <3>1. CASE Of(v, i)
      BY <1>1, <1>4, <1>5, <2>1, <2>4, <3>1 DEF StacksFollow
    <3>2. CASE i = K - 1 /\ blocks[K].kind = "try" /\ Of(v, K)
      <4>1. OpensIn(blocks[i], blocks[K])
        <5>1. i < K /\ K = i + 1 /\ i \in DOMAIN blocks
          BY <1>3, <1>4, <3>2
        <5> QED BY <1>1, <1>3, <5>1 DEF BlockTypes
      <4>2. blocks[i].fn = blocks[K].fn
        BY <3>2, <4>1 DEF OpensIn
      <4>3. PICK n \in Nat : n = Len(stacks) /\ DOMAIN stacks = 1..n
        BY <1>1, Places
      <4>4. n = blocks[K].fn /\ g \in 1..n
        BY <1>1, <1>3, <2>1, <4>3 DEF BlockTypes
      <4> QED BY <2>4, <4>2, <4>4
    <3> QED BY <1>7, <2>4, <3>1, <3>2
  <2> QED BY <1>3, <1>4, <2>3, <2>4 DEF StacksFollow
<1> QED BY <1>9, <1>10, <1>11, <1>12, <1>13, <1>14, <1>15, <1>16, <1>17 DEF ScopesInvariant

----------------------------------------------------------------------------
(* VarMap::name gives a code name that no variable has: one of the first     *)
(* numbers is not in use, for there are more of them than variables.         *)
LEMMA FreshCode ==
  ASSUME ListTypes, NEW n, NEW code, code = name(varMap, n)
  PROVE  code = <<n, code[2]>> /\ \A v \in varMap : v.code # code
<1> DEFINE C == Cardinality(varMap)
           S == {k \in 0..C : \A v \in varMap : v.code # <<n, k>>}
<1>1. IsFiniteSet(varMap) /\ C \in Nat
  BY FS_CardinalityType DEF ListTypes
<1>2. S # {}
  <2>1. SUFFICES ASSUME S = {} PROVE FALSE
    OBVIOUS
  <2> DEFINE f == [k \in 0..C |-> CHOOSE v \in varMap : v.code = <<n, k>>]
  <2>2. \A k \in 0..C : \E v \in varMap : v.code = <<n, k>>
    BY <2>1
  <2>3. \A k \in 0..C : f[k] \in varMap /\ f[k].code = <<n, k>>
    BY <2>2
  <2>4. f \in [0..C -> varMap]
    BY <2>3
  <2>5. IsFiniteSet(0..C) /\ Cardinality(0..C) = C + 1
    <3>1. 0 \in Int /\ C \in Int
      BY <1>1
    <3>2. IsFiniteSet(0..C) /\ Cardinality(0..C) = IF 0 > C THEN 0 ELSE C - 0 + 1
      BY <3>1, FS_Interval
    <3> QED BY <1>1, <3>2
  <2>6. C < Cardinality(0..C)
    BY <1>1, <2>5
  <2> HIDE DEF f, C
  <2>7. \E x, y \in 0..C : x # y /\ f[x] = f[y]
    BY <1>1, <2>4, <2>5, <2>6, FS_PigeonHole DEF C
  <2> QED BY <2>3, <2>7
<1>3. PICK k \in S : \A x \in S : k <= x
  <2>1. S \in SUBSET Nat
    BY <1>1
  <2> HIDE DEF S
  <2> QED BY <1>2, <2>1, SmallestMember
<1>4. Min(S) \in S
  BY <1>3 DEF Min
<1>5. code = <<n, Min(S)>>
  BY DEF name
<1>6. PICK m : m = Min(S)
  OBVIOUS
<1>7. code = <<n, m>> /\ \A v \in varMap : v.code # <<n, m>>
  BY <1>4, <1>5, <1>6
<1> QED BY ONLY <1>7

(* Another block on top *)
LEMMA ReplacedPlaces ==
  ASSUME ListTypes, BlockTypes, NEW w, NEW t, t = Replaced(w), NEW K, K = Depth
  PROVE  /\ t \in Seq(Range(t)) /\ Len(t) = K /\ K \in Nat \ {0} /\ DOMAIN t = 1..K
         /\ t[K] = w /\ \A i \in 1..K : i # K => t[i] = blocks[i]
<1>1. PICK F, s : F = Range(blocks) \union {w} /\ s = blocks
  OBVIOUS
<1>2. s \in Seq(F) /\ s # <<>> /\ w \in F /\ t = OnTop(s, w) /\ Len(s) = K
  <2>1. s \in Seq(F)
    BY <1>1, WiderRange DEF BlockTypes
  <2> QED BY <1>1, <2>1, Places DEF Replaced, OnTop, Butlast, Front, Depth
<1>3. t \in Seq(F) /\ Len(t) = Len(s) /\ Len(s) \in Nat \ {0}
  BY <1>2, ReplacedTypes
<1>4. t[Len(s)] = w
  BY <1>2, ReplacedTop
<1>5. \A i \in 1..Len(s) : i # Len(s) => t[i] = s[i]
  BY <1>2, ReplacedBelow
<1>6. t \in Seq(Range(t)) /\ DOMAIN t = 1..Len(t)
  BY <1>3, OwnRange, LenProperties
<1> QED BY <1>1, <1>2, <1>3, <1>4, <1>5, <1>6

(* A block behind it *)
TwoOnTop(t, w, c, K) ==
  /\ t \in Seq(Range(t)) /\ Len(t) = K + 1 /\ K \in Nat \ {0} /\ DOMAIN t = 1..K + 1
  /\ t[K + 1] = c /\ t[K] = w /\ \A i \in 1..K : i # K => t[i] = blocks[i]
LEMMA PushedPlaces ==
  ASSUME ListTypes, BlockTypes, NEW w, NEW c, NEW t, t = Append(Replaced(w), c), NEW K, K = Depth
  PROVE  TwoOnTop(t, w, c, K)
<1>1. PICK u, F : u = Replaced(w) /\ F = Range(u) \union {c}
  OBVIOUS
<1>2. /\ u \in Seq(Range(u)) /\ Len(u) = K /\ K \in Nat \ {0}
      /\ u[K] = w /\ \A i \in 1..K : i # K => u[i] = blocks[i]
  BY <1>1, ReplacedPlaces
<1>3. u \in Seq(F) /\ c \in F
  BY <1>1, <1>2, WiderRange
<1>4. t \in Seq(F) /\ Len(t) = Len(u) + 1 /\ (\A i \in 1..Len(u) : t[i] = u[i]) /\ t[Len(u) + 1] = c
  BY <1>1, <1>3, OneMoreOnTop
<1>5. t \in Seq(Range(t)) /\ DOMAIN t = 1..Len(t)
  BY <1>4, OwnRange, LenProperties
<1>6. K \in 1..K
  BY <1>2
<1> QED BY <1>2, <1>4, <1>5, <1>6 DEF TwoOnTop

(* A variable is declared. *)
LEMMA DeclareGrows ==
  ASSUME ScopesInvariant, NEW n, DeclareVar(n)
  PROVE  Grows
<1>1. ListTypes /\ BlockTypes
  BY DEF ScopesInvariant
<1>2. PICK id, code, K, b : id = decls + 1 /\ code = name(varMap, n) /\ K = Depth /\ b = Innermost
  OBVIOUS
<1>3. PICK e, p : e = Over(Only(n, id), b.env) /\ p = Over(Only(code, id), b.printed)
  OBVIOUS
<1>4. /\ DOMAIN e = DOMAIN b.env \union {n} /\ e[n] = id /\ \A y \in DOMAIN b.env : y # n => e[y] = b.env[y]
      /\ DOMAIN p = DOMAIN b.printed \union {code} /\ p[code] = id
      /\ \A y \in DOMAIN b.printed : y # code => p[y] = b.printed[y]
  <2>1. DOMAIN e = DOMAIN b.env \union {n} /\ e[n] = id /\ \A y \in DOMAIN b.env : y # n => e[y] = b.env[y]
    <3>1. PICK f : f = b.env
      OBVIOUS
    <3>2. e = Over(Only(n, id), f)
      BY <1>3, <3>1
    <3> QED BY ONLY <3>1, <3>2 DEF Over, Only
  <2>2. /\ DOMAIN p = DOMAIN b.printed \union {code} /\ p[code] = id
        /\ \A y \in DOMAIN b.printed : y # code => p[y] = b.printed[y]
    <3>1. PICK f : f = b.printed
      OBVIOUS
    <3>2. p = Over(Only(code, id), f)
      BY <1>3, <3>1
    <3> QED BY ONLY <3>1, <3>2 DEF Over, Only
  <2> QED BY <2>1, <2>2
<1>5. PICK x : x = Var(n, code, b.frame, id)
  OBVIOUS
<1>6. x.name = n /\ x.code = code /\ x.frame = b.frame /\ x.id = id
  BY <1>5 DEF Var
<1>7. code = <<n, code[2]>> /\ \A v \in varMap : v.code # code
  BY <1>1, <1>2, FreshCode
<1>8. PICK w : w = [[b EXCEPT !.at = "statements"] EXCEPT !.env = e, !.printed = p]
  OBVIOUS
<1>9. /\ K \in Nat \ {0} /\ DOMAIN blocks = 1..K /\ K \in DOMAIN blocks /\ b = blocks[K] /\ IsBlock(b) /\ decls \in Nat
      /\ b.since \in Nat /\ b.since <= decls
  <2>1. K \in Nat \ {0} /\ DOMAIN blocks = 1..K /\ K \in DOMAIN blocks /\ b = blocks[K]
    BY <1>1, <1>2, Places DEF Innermost, Last, Depth
  <2> QED BY <1>1, <2>1 DEF BlockTypes, IsBlock, ListTypes
<1>10. GoesOn(b, w) /\ IsBlock(w) /\ w.env = e /\ w.printed = p /\ w.todo = b.todo /\ w.at = "statements"
  <2>1. w = [kind |-> b.kind, frame |-> b.frame, fn |-> b.fn, since |-> b.since, env |-> e,
             printed |-> p, todo |-> b.todo, at |-> "statements"]
    BY <1>8, <1>9 DEF IsBlock
  <2>2. IsBlock(b)
    BY <1>9
  <2> QED BY ONLY <2>1, <2>2 DEF IsBlock, GoesOn
<1>11. /\ varMap' = varMap \union {x} /\ decls' = id /\ stacks' = stacks /\ strays' = strays /\ b.at # "group"
  BY <1>2, <1>5 DEF DeclareVar
<1>12. blocks' = Replaced(w)
  <2>1. blocks' = Replaced([Spoken EXCEPT !.env = Over(Only(n, id), @), !.printed = Over(Only(code, id), @)])
    BY <1>2 DEF DeclareVar
  <2>2. Spoken = [b EXCEPT !.at = "statements"] /\ Spoken.env = b.env /\ Spoken.printed = b.printed
    <3>1. Spoken = [b EXCEPT !.at = "statements"]
      BY <1>2 DEF Spoken
    <3> QED BY <1>9, <3>1 DEF IsBlock
  <2>3. w = [Spoken EXCEPT !.env = Over(Only(n, id), @), !.printed = Over(Only(code, id), @)]
    BY <1>3, <1>8, <2>2
  <2> QED BY <2>1, <2>3
<1>13. /\ blocks' \in Seq(Range(blocks')) /\ Top = K /\ DOMAIN blocks' = 1..K /\ blocks'[K] = w
       /\ \A i \in 1..K : i # K => blocks'[i] = blocks[i]
  BY <1>1, <1>2, <1>12, ReplacedPlaces DEF Top
<1>14. varMap' \ varMap \subseteq {x} /\ id \in decls + 1..decls' /\ x \in varMap'
  BY <1>9, <1>11, <1>2
<1>15. ListGrows
  <2>1. decls' \in Nat /\ decls <= decls'
    BY <1>2, <1>9, <1>11
  <2>2. IsFiniteSet(varMap')
    BY <1>1, <1>11, FS_AddElement DEF ListTypes
  <2>3. x = Var(x.name, x.code, x.frame, x.id) /\ x.code = <<x.name, x.code[2]>> /\ x.frame = blocks'[Top].frame
    BY <1>5, <1>6, <1>7, <1>10, <1>13 DEF GoesOn
  <2> QED BY <1>6, <1>7, <1>11, <1>14, <2>1, <2>2, <2>3 DEF ListGrows
<1>16. BlocksGrow
  <2>1. \A i \in DOMAIN blocks : GoesOn(blocks[i], blocks'[i])
    BY <1>9, <1>10, <1>13 DEF GoesOn
  <2>2. \A i \in DOMAIN blocks' : IsBlock(blocks'[i])
    BY <1>1, <1>9, <1>10, <1>13 DEF BlockTypes
  <2>3. \A fn \in Range(blocks'[Top].todo) : Old(Top) /\ fn \in Range(blocks[Top].todo)
    BY <1>9, <1>10, <1>13 DEF Old
  <2>4. stacks' \in Seq(Range(stacks')) /\ Len(stacks') = blocks'[Top].fn
    BY <1>1, <1>2, <1>10, <1>11, <1>13 DEF BlockTypes, GoesOn
  <2> QED BY <1>2, <1>11, <1>13, <2>1, <2>2, <2>3, <2>4 DEF BlocksGrow
<1>17. MeaningGrows
  <2>1. ASSUME NEW i \in DOMAIN blocks, NEW m \in DOMAIN blocks[i].env
        PROVE  /\ m \in DOMAIN blocks'[i].env
               /\ \/ blocks'[i].env[m] = blocks[i].env[m]
                  \/ i = Top /\ \E v \in varMap' \ varMap : v.name = m
    <3>1. x \notin varMap
      BY <1>6, <1>7
    <3> QED BY <1>4, <1>6, <1>9, <1>10, <1>13, <1>14, <3>1
  <2>2. ASSUME NEW i \in DOMAIN blocks', NEW m \in DOMAIN blocks'[i].env
        PROVE  \/ Old(i) /\ m \in DOMAIN blocks[i].env /\ blocks'[i].env[m] = blocks[i].env[m]
               \/ i = Top /\ FreshlyMeant(blocks'[i], m)
    <3>1. x \notin varMap
      BY <1>6, <1>7
    <3>2. FreshlyMeant(w, n)
      BY <1>4, <1>6, <1>10, <1>14, <3>1 DEF FreshlyMeant
    <3> QED BY <1>4, <1>9, <1>10, <1>13, <2>2, <3>2 DEF Old
  <2>3. \A v \in varMap' \ varMap : v.name \in DOMAIN blocks'[Top].env /\ blocks'[Top].env[v.name] = v.id
    BY <1>4, <1>6, <1>10, <1>13, <1>14
  <2> QED BY <2>1, <2>2, <2>3 DEF MeaningGrows
<1>18. PrintGrows
  <2>1. Ahead(w) = Ahead(b)
    BY <1>10, <1>11 DEF Ahead
  <2>2. ASSUME NEW i \in DOMAIN blocks, NEW v \in varMap
        PROVE  /\ v.code \in DOMAIN blocks[i].printed /\ blocks[i].printed[v.code] = v.id =>
                    v.code \in DOMAIN blocks'[i].printed /\ blocks'[i].printed[v.code] = v.id
               /\ v.id \in Ahead(blocks[i]) => v.id \in Ahead(blocks'[i])
    BY <1>4, <1>7, <1>9, <1>10, <1>13, <2>1
  <2>3. ASSUME NEW i \in DOMAIN blocks', NEW c \in DOMAIN blocks'[i].printed
        PROVE  \/ Old(i) /\ c \in DOMAIN blocks[i].printed
               \/ \A v \in varMap : v.code # c
    BY <1>4, <1>7, <1>9, <1>10, <1>13, <2>3 DEF Old
  <2> QED BY <2>2, <2>3 DEF PrintGrows
<1> QED BY <1>15, <1>16, <1>17, <1>18 DEF Grows

----------------------------------------------------------------------------
(* The functions of a block: every name and every id once. *)
LEMMA NumberedOnce ==
  ASSUME NEW h \in Hoists, NEW from \in Nat, NEW fns, fns = Numbered(h, from)
  PROVE  /\ fns \in Seq(Range(fns)) /\ Len(fns) \in Nat
         /\ \A fn \in Range(fns) : fn.id \in from + 1..from + Len(fns)
         /\ \A f, g \in Range(fns) : f.id = g.id \/ f.name = g.name => f = g
<1>1. h \in Seq([name : {h[i].name : i \in DOMAIN h}, group : Nat])
  BY HoistsAssumption
<1>2. PICK n \in Nat : n = Len(h) /\ DOMAIN h = 1..n
  BY <1>1, LenProperties
<1>3. \A i, j \in 1..n : h[i].name = h[j].name => i = j
  BY <1>2, HoistsAssumption
<1>4. fns = [i \in 1..n |-> [name |-> h[i].name, group |-> h[i].group, id |-> from + i]]
  BY <1>2 DEF Numbered
<1>5. fns \in [1..n -> Range(fns)]
  BY <1>4 DEF Range
<1>6. fns \in Seq(Range(fns)) /\ Len(fns) = n
  BY <1>5, IsSequence
<1>7. \A fn \in Range(fns) : \E i \in 1..n : fn = [name |-> h[i].name, group |-> h[i].group, id |-> from + i]
  BY <1>4 DEF Range
<1>8. ASSUME NEW fn \in Range(fns) PROVE fn.id \in from + 1..from + Len(fns)
  BY <1>6, <1>7
<1>9. ASSUME NEW f \in Range(fns), NEW g \in Range(fns), f.id = g.id \/ f.name = g.name PROVE f = g
  <2>1. PICK i \in 1..n : f = [name |-> h[i].name, group |-> h[i].group, id |-> from + i]
    BY <1>7
  <2>2. PICK j \in 1..n : g = [name |-> h[j].name, group |-> h[j].group, id |-> from + j]
    BY <1>7
  <2>3. from + i = from + j \/ h[i].name = h[j].name
    BY <1>9, <2>1, <2>2
  <2>4. i = j
    BY <1>3, <2>3
  <2> QED BY <2>1, <2>2, <2>4
<1> QED BY <1>6, <1>8, <1>9

(* What the functions of a block mean in it *)
FunctionsOver(fns, own, env) ==
  /\ DOMAIN env = {fn.name : fn \in Range(fns)} \union DOMAIN own
  /\ \A fn \in Range(fns) : env[fn.name] = fn.id
  /\ \A n \in DOMAIN own : env[n] = own[n] \/ \E fn \in Range(fns) : fn.name = n
LEMMA MeaningOver ==
  ASSUME NEW fns, \A f, g \in Range(fns) : f.name = g.name => f = g, NEW own, NEW env, env = Over(Meaning(fns), own)
  PROVE  FunctionsOver(fns, own, env)
<1>1. PICK M : M = Meaning(fns)
  OBVIOUS
<1>2. DOMAIN M = {fn.name : fn \in Range(fns)}
  BY <1>1 DEF Meaning
<1>3. ASSUME NEW fn \in Range(fns) PROVE M[fn.name] = fn.id
  <2>1. M[fn.name] = (CHOOSE g \in Range(fns) : g.name = fn.name).id
    BY <1>1 DEF Meaning
  <2>2. PICK c : c = CHOOSE g \in Range(fns) : g.name = fn.name
    OBVIOUS
  <2>3. c \in Range(fns) /\ c.name = fn.name
    BY <2>2
  <2>4. c = fn
    BY <2>3
  <2> QED BY <2>1, <2>2, <2>4
<1>4. env = [x \in DOMAIN M \union DOMAIN own |-> IF x \in DOMAIN M THEN M[x] ELSE own[x]]
  BY <1>1 DEF Over
<1> QED BY <1>2, <1>3, <1>4 DEF FunctionsOver

(* What the variables of the list become: those that are there, a parameter and functions. *)
LEMMA ForwardAdds ==
  ASSUME NEW its, NEW fns, NEW frame, NEW new, new = Forward(its, fns, frame)
  PROVE  /\ its \subseteq new
         /\ \A v \in new : v \in its \/ \E fn \in Range(fns) : ~ has(its, fn.name) /\ v = Var(fn.name, FnCode(fn), frame, fn.id)
         /\ \A fn \in Range(fns) : ~ has(its, fn.name) => Var(fn.name, FnCode(fn), frame, fn.id) \in new
BY DEF Forward

(* A variable of each number, no two of the same: as few as there are numbers *)
LEMMA FewVariables ==
  ASSUME NEW S, NEW a \in Nat, NEW b \in Nat, \A v \in S : v.id \in a..b, \A v, w \in S : v.id = w.id => v = w
  PROVE  IsFiniteSet(S)
<1> DEFINE f == [v \in S |-> v.id]
<1>1. f \in [S -> a..b] /\ \A v, w \in S : f[v] = f[w] => v = w
  OBVIOUS
<1>2. f \in Injection(S, a..b)
  <2> HIDE DEF f
  <2> QED BY <1>1 DEF Injection, IsInjective
<1>3. IsFiniteSet(a..b)
  BY FS_Interval
<1> HIDE DEF f
<1> QED BY <1>2, <1>3, FS_Injection

(* What a block may begin with: the list as it is, or with a parameter behind it *)
WithParameter(kind, its, own, printed, from) ==
  /\ varMap \subseteq its /\ from \in Nat /\ decls <= from
  /\ \A x \in its \ varMap :
       /\ x = Var(x.name, x.code, x.frame, x.id) /\ x.id = decls + 1 /\ x.id = from
       /\ x.code = <<x.name, x.code[2]>> /\ (\A v \in varMap : v.code # x.code)
       /\ kind = "fn" /\ x.frame = Innermost.frame + 1
       /\ x.name \in DOMAIN own /\ own[x.name] = x.id /\ x.code \in DOMAIN printed /\ printed[x.code] = x.id
  /\ \A x, y \in its \ varMap : x = y
  /\ \A n \in DOMAIN own : \E x \in its \ varMap : x.name = n /\ x.id = own[n]
  /\ \A code \in DOMAIN printed : \A v \in varMap : v.code # code

LEMMA NoParameter ==
  ASSUME ListTypes, NEW kind
  PROVE  WithParameter(kind, varMap, NoNames, NoNames, decls)
BY DEF WithParameter, NoNames, ListTypes

LEMMA OneParameter ==
  ASSUME ListTypes, NEW p, NEW code, code = name(varMap, p), NEW its,
         its = varMap \union {Var(p, code, Innermost.frame + 1, decls + 1)}
  PROVE  WithParameter("fn", its, Only(p, decls + 1), Only(code, decls + 1), decls + 1)
<1>1. PICK x, own, printed : /\ x = Var(p, code, Innermost.frame + 1, decls + 1)
                             /\ own = Only(p, decls + 1) /\ printed = Only(code, decls + 1)
  OBVIOUS
<1>2. x.name = p /\ x.code = code /\ x.frame = Innermost.frame + 1 /\ x.id = decls + 1 /\ x = Var(x.name, x.code, x.frame, x.id)
  BY <1>1 DEF Var
<1>3. code = <<p, code[2]>> /\ \A v \in varMap : v.code # code
  BY FreshCode
<1>4. DOMAIN own = {p} /\ own[p] = decls + 1 /\ DOMAIN printed = {code} /\ printed[code] = decls + 1
  BY <1>1 DEF Only
<1>5. decls + 1 \in Nat /\ decls <= decls + 1
  BY DEF ListTypes
<1>6. its = varMap \union {x} /\ x \notin varMap
  BY <1>1, <1>2, <1>3
<1>7. \A y \in its \ varMap : y = x
  BY <1>6
<1>8. \A y \in its \ varMap :
        /\ y = Var(y.name, y.code, y.frame, y.id) /\ y.id = decls + 1
        /\ y.code = <<y.name, y.code[2]>> /\ (\A v \in varMap : v.code # y.code)
        /\ y.frame = Innermost.frame + 1
        /\ y.name \in DOMAIN own /\ own[y.name] = y.id /\ y.code \in DOMAIN printed /\ printed[y.code] = y.id
  BY <1>2, <1>3, <1>4, <1>7
<1>9. \A n \in DOMAIN own : \E y \in its \ varMap : y.name = n /\ y.id = own[n]
  BY <1>2, <1>4, <1>6
<1>10. WithParameter("fn", its, own, printed, decls + 1)
  BY <1>3, <1>4, <1>5, <1>6, <1>7, <1>8, <1>9 DEF WithParameter
<1> QED BY <1>1, <1>10

(* What goes on being printed in the block in which another one is opened *)
PrintsOn(b, c) ==
  /\ \A v \in varMap :
       /\ v.code \in DOMAIN b.printed /\ b.printed[v.code] = v.id => v.code \in DOMAIN c.printed /\ c.printed[v.code] = v.id
       /\ v.id \in Ahead(b) => v.id \in Ahead(c) \/ (v.code \in DOMAIN c.printed /\ c.printed[v.code] = v.id)
  /\ \A code \in DOMAIN c.printed : code \in DOMAIN b.printed \/ \A v \in varMap : v.id <= b.since => v.code # code

\* The new block, and what it adds to the list
OpensBlock(kind, parent, its, own, printed, fns, from, c) ==
  /\ blocks' = Append(Replaced(parent), c)
  /\ c = Opened(kind, IF kind = "try" THEN Innermost.frame ELSE Innermost.frame + 1,
                IF kind = "fn" THEN Innermost.fn + 1 ELSE Innermost.fn, decls, c.env, printed, fns)
  /\ c.env = Over(Meaning(fns), own)
  /\ varMap' = Forward(its, fns, c.frame)
  /\ strays' = strays \union Taken(varMap', fns)
  /\ decls' = from + Len(fns)
  /\ stacks' = IF kind = "fn" THEN Append(stacks, varStack(varMap)) ELSE stacks
  /\ fns \in Seq(Range(fns)) /\ Len(fns) \in Nat
  /\ \A fn \in Range(fns) : fn.id \in from + 1..from + Len(fns)
  /\ \A f, g \in Range(fns) : f.id = g.id \/ f.name = g.name => f = g
  /\ WithParameter(kind, its, own, printed, from)
  /\ IsBlock(parent) /\ GoesOn(Innermost, parent) /\ parent.env = Innermost.env /\ PrintsOn(Innermost, parent)

LEMMA OpenIsOpening ==
  ASSUME ScopesInvariant, NEW h \in Hoists, NEW kind, NEW parent, NEW its, NEW own, NEW printed, NEW from,
         Open(kind, parent, its, own, printed, h, from), WithParameter(kind, its, own, printed, from),
         stacks' = IF kind = "fn" THEN Append(stacks, varStack(varMap)) ELSE stacks,
         IsBlock(parent), GoesOn(Innermost, parent), parent.env = Innermost.env, PrintsOn(Innermost, parent)
  PROVE  \E fns, c : OpensBlock(kind, parent, its, own, printed, fns, from, c)
<1>1. PICK fns, frame, fn : /\ fns = Numbered(h, from)
                            /\ frame = IF kind = "try" THEN Innermost.frame ELSE Innermost.frame + 1
                            /\ fn = IF kind = "fn" THEN Innermost.fn + 1 ELSE Innermost.fn
  OBVIOUS
<1>2. PICK env, c : env = Over(Meaning(fns), own) /\ c = Opened(kind, frame, fn, decls, env, printed, fns)
  OBVIOUS
<1>3. c.env = env /\ c.frame = frame
  BY <1>2 DEF Opened
<1>4. from \in Nat
  BY DEF WithParameter
<1>5. /\ fns \in Seq(Range(fns)) /\ Len(fns) \in Nat
      /\ \A f \in Range(fns) : f.id \in from + 1..from + Len(fns)
      /\ \A f, g \in Range(fns) : f.id = g.id \/ f.name = g.name => f = g
  BY <1>1, <1>4, NumberedOnce
<1>6. /\ blocks' = Append(Replaced(parent), c)
      /\ varMap' = Forward(its, fns, frame)
      /\ strays' = strays \union Taken(varMap', fns)
      /\ decls' = from + Len(fns)
  BY <1>1, <1>2 DEF Open
<1>7. OpensBlock(kind, parent, its, own, printed, fns, from, c)
  BY <1>1, <1>2, <1>3, <1>5, <1>6 DEF OpensBlock
<1> QED BY <1>7

LEMMA OpenedBlock ==
  ASSUME ListTypes, BlockTypes, NEW kind, NEW parent, NEW its, NEW own, NEW printed, NEW fns, NEW from, NEW c,
         OpensBlock(kind, parent, its, own, printed, fns, from, c)
  PROVE  /\ c.kind = kind /\ c.since = decls /\ c.printed = printed /\ c.todo = fns /\ c.at = "statements"
         /\ OpensIn(Innermost, c) /\ IsBlock(c)
         /\ Ahead(c) = {fn.id : fn \in Range(fns)}
<1>1. c = Opened(kind, IF kind = "try" THEN Innermost.frame ELSE Innermost.frame + 1,
                 IF kind = "fn" THEN Innermost.fn + 1 ELSE Innermost.fn, decls, c.env, printed, fns)
  BY DEF OpensBlock
<1>2. PICK frame, fn : /\ frame = IF kind = "try" THEN Innermost.frame ELSE Innermost.frame + 1
                       /\ fn = IF kind = "fn" THEN Innermost.fn + 1 ELSE Innermost.fn
  OBVIOUS
<1>3. c = [kind |-> kind, frame |-> frame, fn |-> fn, since |-> decls, env |-> c.env, printed |-> printed,
           todo |-> fns, at |-> "statements"]
  BY <1>1, <1>2 DEF Opened
<1>4. /\ c.kind = kind /\ c.since = decls /\ c.printed = printed /\ c.todo = fns /\ c.at = "statements"
      /\ c.frame = frame /\ c.fn = fn
  BY <1>3
<1>5. Innermost.frame \in Nat /\ Innermost.fn \in Nat /\ decls \in Nat
  <2>1. Innermost = blocks[Depth] /\ Depth \in DOMAIN blocks
    BY Places DEF Innermost, Last, Depth
  <2> QED BY <2>1, Places DEF ListTypes
<1>6. frame \in Nat /\ fn \in Nat
  BY <1>2, <1>5
<1>7. OpensIn(Innermost, c)
  BY <1>2, <1>4 DEF OpensIn
<1>8. IsBlock(c)
  <2>1. fns \in Seq(Range(fns))
    BY DEF OpensBlock
  <2> QED BY <1>3, <1>4, <1>5, <1>6, <2>1 DEF IsBlock
<1>9. Ahead(c) = {f.id : f \in Range(fns)}
  BY <1>4 DEF Ahead
<1> QED BY <1>4, <1>7, <1>8, <1>9

(* What is new in the list: a parameter, or a function of the block *)
LEMMA OpenedList ==
  ASSUME ListTypes, BlockTypes, NEW kind, NEW parent, NEW its, NEW own, NEW printed, NEW fns, NEW from, NEW c,
         OpensBlock(kind, parent, its, own, printed, fns, from, c)
  PROVE  /\ varMap \subseteq varMap' /\ its \subseteq varMap'
         /\ \A v \in varMap' \ varMap :
              v \in its \/ \E fn \in Range(fns) : ~ has(its, fn.name) /\ v = Var(fn.name, FnCode(fn), c.frame, fn.id)
         /\ \A fn \in Range(fns) :
              \/ fn.id \in strays' /\ has(its, fn.name)
              \/ ~ has(its, fn.name) /\ Var(fn.name, FnCode(fn), c.frame, fn.id) \in varMap' \ varMap
<1>1. /\ varMap' = Forward(its, fns, c.frame) /\ strays' = strays \union Taken(varMap', fns)
      /\ WithParameter(kind, its, own, printed, from) /\ fns \in Seq(Range(fns)) /\ Len(fns) \in Nat
      /\ \A fn \in Range(fns) : fn.id \in from + 1..from + Len(fns)
      /\ \A f, g \in Range(fns) : f.id = g.id \/ f.name = g.name => f = g
  BY DEF OpensBlock
<1>2. /\ its \subseteq varMap'
      /\ \A v \in varMap' : v \in its \/ \E fn \in Range(fns) : ~ has(its, fn.name) /\ v = Var(fn.name, FnCode(fn), c.frame, fn.id)
      /\ \A fn \in Range(fns) : ~ has(its, fn.name) => Var(fn.name, FnCode(fn), c.frame, fn.id) \in varMap'
  <2>1. PICK new, frame : new = varMap' /\ frame = c.frame /\ new = Forward(its, fns, frame)
    BY <1>1
  <2>2. /\ its \subseteq new
        /\ \A v \in new : v \in its \/ \E fn \in Range(fns) : ~ has(its, fn.name) /\ v = Var(fn.name, FnCode(fn), frame, fn.id)
        /\ \A fn \in Range(fns) : ~ has(its, fn.name) => Var(fn.name, FnCode(fn), frame, fn.id) \in new
    BY ONLY <2>1, ForwardAdds
  <2> QED BY <2>1, <2>2
<1>3. varMap \subseteq its /\ from \in Nat /\ decls <= from /\ decls \in Nat
  BY <1>1 DEF WithParameter, ListTypes
<1>4. ASSUME NEW v \in its, NEW fn \in Range(fns) PROVE v.id # fn.id
  <2>1. v.id \in Nat /\ v.id <= from
    <3>1. CASE v \in varMap
      BY <1>3, <3>1 DEF ListTypes
    <3>2. CASE v \notin varMap
      BY <1>1, <1>3, <3>2 DEF WithParameter
    <3> QED BY <3>1, <3>2
  <2>2. fn.id \in from + 1..from + Len(fns)
    BY <1>1
  <2> QED BY <1>3, <2>1, <2>2
<1>5. ASSUME NEW fn \in Range(fns), has(its, fn.name) PROVE fn.id \in strays'
  <2>1. ASSUME NEW v \in varMap', v.id = fn.id PROVE FALSE
    <3>1. v \notin its
      BY <1>4, <2>1
    <3>2. PICK g \in Range(fns) : ~ has(its, g.name) /\ v = Var(g.name, FnCode(g), c.frame, g.id)
      BY <1>2, <3>1
    <3>3. g.id = fn.id
      BY <2>1, <3>2 DEF Var
    <3>4. g = fn
      BY <1>1, <3>3
    <3> QED BY <1>5, <3>2, <3>4
  <2> QED BY <1>1, <2>1 DEF Taken
<1>6. ASSUME NEW fn \in Range(fns), ~ has(its, fn.name)
      PROVE  Var(fn.name, FnCode(fn), c.frame, fn.id) \in varMap' \ varMap
  <2>1. Var(fn.name, FnCode(fn), c.frame, fn.id) \in varMap'
    BY <1>2, <1>6
  <2>2. Var(fn.name, FnCode(fn), c.frame, fn.id).id = fn.id
    BY DEF Var
  <2> QED BY <1>3, <1>4, <2>1, <2>2
<1> QED BY <1>2, <1>3, <1>5, <1>6

(* The places after a block was opened *)
LEMMA OpenedPlaces ==
  ASSUME ListTypes, BlockTypes, NEW kind, NEW parent, NEW its, NEW own, NEW printed, NEW fns, NEW from, NEW c,
         OpensBlock(kind, parent, its, own, printed, fns, from, c), NEW K, K = Depth
  PROVE  /\ K \in Nat \ {0} /\ DOMAIN blocks = 1..K /\ K \in DOMAIN blocks /\ Innermost = blocks[K]
         /\ blocks' \in Seq(Range(blocks')) /\ Top = K + 1 /\ DOMAIN blocks' = 1..K + 1
         /\ blocks'[K + 1] = c /\ blocks'[K] = parent /\ \A i \in 1..K : i # K => blocks'[i] = blocks[i]
         /\ \A i \in DOMAIN blocks' : i = K + 1 \/ i \in DOMAIN blocks
         /\ K + 1 \notin DOMAIN blocks
<1>1. K \in Nat \ {0} /\ DOMAIN blocks = 1..K /\ K \in DOMAIN blocks /\ Innermost = blocks[K]
  BY Places DEF Innermost, Last, Depth
<1>2. PICK t : t = blocks' /\ t = Append(Replaced(parent), c)
  BY DEF OpensBlock
<1>3. /\ t \in Seq(Range(t)) /\ Len(t) = K + 1 /\ DOMAIN t = 1..K + 1
      /\ t[K + 1] = c /\ t[K] = parent /\ \A i \in 1..K : i # K => t[i] = blocks[i]
  <2>1. TwoOnTop(t, parent, c, K)
    BY <1>2, PushedPlaces
  <2> QED BY ONLY <2>1 DEF TwoOnTop
<1>4. (\A i \in 1..K + 1 : i = K + 1 \/ i \in 1..K) /\ K + 1 \notin 1..K
  BY <1>1
<1> QED BY <1>1, <1>2, <1>3, <1>4 DEF Top

LEMMA OpenedListGrows ==
  ASSUME ListTypes, BlockTypes, NEW kind, NEW parent, NEW its, NEW own, NEW printed, NEW fns, NEW from, NEW c,
         OpensBlock(kind, parent, its, own, printed, fns, from, c)
  PROVE  ListGrows
<1>1. /\ strays \subseteq strays' /\ decls' = from + Len(fns)
      /\ WithParameter(kind, its, own, printed, from) /\ Len(fns) \in Nat
      /\ \A fn \in Range(fns) : fn.id \in from + 1..from + Len(fns)
      /\ \A f, g \in Range(fns) : f.id = g.id \/ f.name = g.name => f = g
  BY DEF OpensBlock
<1>2. /\ varMap \subseteq varMap'
      /\ \A v \in varMap' \ varMap :
           v \in its \/ \E fn \in Range(fns) : ~ has(its, fn.name) /\ v = Var(fn.name, FnCode(fn), c.frame, fn.id)
  BY OpenedList
<1>3. decls \in Nat /\ from \in Nat /\ decls <= from
  BY <1>1 DEF ListTypes, WithParameter
<1>4. PICK n \in Nat : n = Len(fns)
  BY <1>1
<1>5. decls' = from + n /\ decls' \in Nat /\ decls <= decls'
  BY <1>1, <1>3, <1>4
<1>6. blocks'[Top] = c /\ c.kind = kind /\ OpensIn(Innermost, c)
  BY OpenedPlaces, OpenedBlock
<1>7. ASSUME NEW v \in varMap' \ varMap
      PROVE  /\ v = Var(v.name, v.code, v.frame, v.id) /\ v.id \in decls + 1..decls'
             /\ v.code \in {<<v.name, "fn", v.id>>, <<v.name, v.code[2]>>}
             /\ v.frame = blocks'[Top].frame
             /\ \A w \in varMap : w.code # v.code
  <2>1. CASE v \in its
    <3>1. /\ v = Var(v.name, v.code, v.frame, v.id) /\ v.id = decls + 1 /\ v.id = from
          /\ v.code = <<v.name, v.code[2]>> /\ (\A w \in varMap : w.code # v.code)
          /\ kind = "fn" /\ v.frame = Innermost.frame + 1
      BY <1>1, <2>1 DEF WithParameter
    <3>2. v.frame = c.frame
      BY <1>6, <3>1 DEF OpensIn
    <3>3. v.id \in decls + 1..decls'
      BY <1>3, <1>5, <3>1
    <3> QED BY <1>6, <3>1, <3>2, <3>3
  <2>2. CASE v \notin its
    <3>1. PICK fn \in Range(fns) : v = Var(fn.name, FnCode(fn), c.frame, fn.id)
      BY <1>2, <2>2
    <3>2. /\ v.name = fn.name /\ v.code = <<fn.name, "fn", fn.id>> /\ v.frame = c.frame /\ v.id = fn.id
          /\ v = Var(v.name, v.code, v.frame, v.id)
      BY <3>1 DEF Var, FnCode
    <3>3. fn.id \in from + 1..from + n
      BY <1>1, <1>4
    <3>4. v.id \in decls + 1..decls'
      BY <1>3, <1>5, <3>2, <3>3
    <3>5. ASSUME NEW w \in varMap, w.code = v.code PROVE FALSE
      <4>1. w.id \in 1..decls /\ w.code \in {<<w.name, "fn", w.id>>, <<w.name, w.code[2]>>}
        BY DEF ListTypes
      <4>2. w.id # v.id
        BY <1>3, <3>4, <4>1
      <4>3. w.code # <<w.name, "fn", w.id>>
        BY <3>2, <3>5, <4>2
      <4>4. w.code # <<w.name, w.code[2]>>
        BY <3>2, <3>5
      <4> QED BY <4>1, <4>3, <4>4
    <3> QED BY <1>6, <3>2, <3>4, <3>5
  <2> QED BY <2>1, <2>2
<1>8. ASSUME NEW v \in varMap' \ varMap, NEW w \in varMap' \ varMap, v.id = w.id PROVE v = w
  <2>1. ASSUME NEW x \in varMap' \ varMap, x \notin its PROVE x.id \in from + 1..from + n
    BY <1>1, <1>2, <1>4, <2>1 DEF Var
  <2>2. ASSUME NEW x \in varMap' \ varMap, x \in its PROVE x.id = from
    BY <1>1, <2>2 DEF WithParameter
  <2>3. CASE v \in its /\ w \in its
    BY <1>1, <2>3 DEF WithParameter
  <2>4. CASE v \notin its /\ w \notin its
    <3>1. PICK f \in Range(fns) : v = Var(f.name, FnCode(f), c.frame, f.id)
      BY <1>2, <2>4
    <3>2. PICK g \in Range(fns) : w = Var(g.name, FnCode(g), c.frame, g.id)
      BY <1>2, <2>4
    <3>3. f.id = g.id
      BY <1>8, <3>1, <3>2 DEF Var
    <3> QED BY <1>1, <3>1, <3>2, <3>3
  <2>5. ASSUME NEW x \in varMap' \ varMap, NEW y \in varMap' \ varMap, x \in its, y \notin its PROVE x.id # y.id
    BY <1>3, <2>1, <2>2, <2>5
  <2> QED BY <1>8, <2>3, <2>4, <2>5
<1>9. IsFiniteSet(varMap')
  <2>1. PICK S, a, b : S = varMap' \ varMap /\ a = decls + 1 /\ b = decls'
    OBVIOUS
  <2>2. a \in Nat /\ b \in Nat /\ (\A v \in S : v.id \in a..b) /\ \A v, w \in S : v.id = w.id => v = w
    BY <1>3, <1>5, <1>7, <1>8, <2>1
  <2>3. IsFiniteSet(S)
    BY <2>2, FewVariables
  <2>4. IsFiniteSet(varMap \union S)
    BY <2>3, FS_Union DEF ListTypes
  <2> QED BY <1>2, <2>1, <2>4
<1>10. varMap \subseteq varMap' /\ strays \subseteq strays'
  BY <1>1, <1>2
<1> QED BY ONLY <1>5, <1>7, <1>8, <1>9, <1>10 DEF ListGrows

LEMMA OpenedBlocksGrow ==
  ASSUME ListTypes, BlockTypes, NEW kind, NEW parent, NEW its, NEW own, NEW printed, NEW fns, NEW from, NEW c,
         OpensBlock(kind, parent, its, own, printed, fns, from, c)
  PROVE  BlocksGrow
<1>1. PICK K : K = Depth
  OBVIOUS
<1>2. /\ K \in Nat \ {0} /\ DOMAIN blocks = 1..K /\ K \in DOMAIN blocks /\ Innermost = blocks[K]
      /\ blocks' \in Seq(Range(blocks')) /\ Top = K + 1 /\ DOMAIN blocks' = 1..K + 1
  BY <1>1, OpenedPlaces
<1>3. /\ blocks'[K + 1] = c /\ blocks'[K] = parent
      /\ \A i \in DOMAIN blocks' : i = K + 1 \/ i \in DOMAIN blocks
  BY <1>1, OpenedPlaces
<1>4. \A i \in DOMAIN blocks : i # K => blocks'[i] = blocks[i]
  BY <1>1, <1>2, OpenedPlaces
<1>5. c.kind = kind /\ c.since = decls /\ c.todo = fns /\ OpensIn(Innermost, c) /\ IsBlock(c)
  BY OpenedBlock
<1>6. /\ IsBlock(parent) /\ GoesOn(Innermost, parent)
      /\ WithParameter(kind, its, own, printed, from) /\ decls' = from + Len(fns) /\ Len(fns) \in Nat
      /\ \A fn \in Range(fns) : fn.id \in from + 1..from + Len(fns)
      /\ \A f, g \in Range(fns) : f.id = g.id \/ f.name = g.name => f = g
      /\ stacks' = IF kind = "fn" THEN Append(stacks, varStack(varMap)) ELSE stacks
  BY DEF OpensBlock
<1>7. \A i \in DOMAIN blocks : GoesOn(blocks[i], blocks'[i])
  BY <1>2, <1>3, <1>4, <1>6 DEF GoesOn
<1>8. \A i \in DOMAIN blocks' : IsBlock(blocks'[i])
  BY <1>3, <1>4, <1>5, <1>6 DEF BlockTypes
<1>9. ASSUME NEW fn \in Range(fns)
      PROVE  fn.id \in decls + 1..decls' /\ \A v \in varMap' \ varMap : v.id = fn.id => v.code = FnCode(fn)
  <2>1. from \in Nat /\ decls <= from /\ decls \in Nat
    BY <1>6 DEF WithParameter, ListTypes
  <2>2. fn.id \in from + 1..from + Len(fns)
    BY <1>6
  <2>3. fn.id \in decls + 1..decls'
    BY <1>6, <2>1, <2>2
  <2>4. ASSUME NEW v \in varMap' \ varMap, v.id = fn.id PROVE v.code = FnCode(fn)
    <3>1. v \notin its
      <4>1. v \in its => v.id = from
        BY <1>6 DEF WithParameter
      <4> QED BY <2>1, <2>2, <2>4, <4>1
    <3>2. PICK g \in Range(fns) : v = Var(g.name, FnCode(g), c.frame, g.id)
      BY <3>1, OpenedList
    <3>3. g.id = fn.id /\ v.code = FnCode(g)
      BY <2>4, <3>2 DEF Var
    <3> QED BY <1>6, <3>3
  <2> QED BY <2>3, <2>4
<1>10. PICK n \in Nat : n = Len(stacks) /\ DOMAIN stacks = 1..n /\ n = Innermost.fn
  BY Places DEF BlockTypes
<1>11. PICK code : code = varStack(varMap)
  OBVIOUS
<1>12. /\ stacks' \in Seq(Range(stacks')) /\ Len(stacks') = c.fn
       /\ \A g \in DOMAIN stacks' : (g \in DOMAIN stacks /\ stacks'[g] = stacks[g]) \/ stacks'[g] = code
       /\ \A g \in DOMAIN stacks : g \in DOMAIN stacks' /\ stacks'[g] = stacks[g]
  <2>1. CASE kind = "fn"
    <3>1. PICK s, t, F : s = stacks /\ t = stacks' /\ F = Range(s) \union {code}
      OBVIOUS
    <3>2. s \in Seq(F) /\ code \in F /\ t = Append(s, code)
      BY <1>6, <1>11, <2>1, <3>1, WiderRange DEF BlockTypes
    <3>3. t \in Seq(F) /\ Len(t) = Len(s) + 1 /\ (\A i \in 1..Len(s) : t[i] = s[i]) /\ t[Len(s) + 1] = code
      BY <3>2, OneMoreOnTop
    <3>4. t \in Seq(Range(t)) /\ DOMAIN t = 1..Len(t)
      BY <3>3, OwnRange, LenProperties
    <3>5. Len(t) = n + 1 /\ DOMAIN t = 1..n + 1 /\ (\A i \in 1..n : t[i] = s[i]) /\ t[n + 1] = code
      BY <1>10, <3>1, <3>3, <3>4
    <3>6. c.fn = n + 1
      BY <1>5, <1>10, <2>1 DEF OpensIn
    <3>7. (\A g \in 1..n + 1 : g = n + 1 \/ g \in 1..n) /\ 1..n \subseteq 1..n + 1
      OBVIOUS
    <3> QED BY <1>10, <3>1, <3>4, <3>5, <3>6, <3>7
  <2>2. CASE kind # "fn"
    BY <1>5, <1>6, <1>10, <2>2 DEF OpensIn, BlockTypes
  <2> QED BY <2>1, <2>2
<1>13. \A fn \in Range(blocks'[Top].todo) : fn \in Range(fns)
  BY <1>2, <1>3, <1>5
<1>14. Top = Depth + 1 /\ blocks'[Top] = c
  BY <1>1, <1>2, <1>3
<1> QED BY <1>2, <1>5, <1>7, <1>8, <1>9, <1>11, <1>12, <1>13, <1>14 DEF BlocksGrow

LEMMA OpenedMeaningGrows ==
  ASSUME ListTypes, BlockTypes, NEW kind, NEW parent, NEW its, NEW own, NEW printed, NEW fns, NEW from, NEW c,
         OpensBlock(kind, parent, its, own, printed, fns, from, c)
  PROVE  MeaningGrows
<1>1. PICK K : K = Depth
  OBVIOUS
<1>2. /\ DOMAIN blocks = 1..K /\ Innermost = blocks[K] /\ Top = K + 1 /\ DOMAIN blocks' = 1..K + 1
      /\ blocks'[K + 1] = c /\ blocks'[K] = parent
      /\ \A i \in DOMAIN blocks' : i = K + 1 \/ i \in DOMAIN blocks
  BY <1>1, OpenedPlaces
<1>3. \A i \in DOMAIN blocks : blocks'[i].env = blocks[i].env
  <2>1. \A i \in DOMAIN blocks : i # K => blocks'[i] = blocks[i]
    BY <1>1, <1>2, OpenedPlaces
  <2> QED BY <1>2, <2>1 DEF OpensBlock
<1>4. c.kind = kind /\ c.printed = printed /\ Ahead(c) = {fn.id : fn \in Range(fns)}
  BY OpenedBlock
<1>5. /\ WithParameter(kind, its, own, printed, from) /\ c.env = Over(Meaning(fns), own)
      /\ \A f, g \in Range(fns) : f.id = g.id \/ f.name = g.name => f = g
  BY DEF OpensBlock
<1>6. PICK env : env = c.env
  OBVIOUS
<1>7. /\ DOMAIN env = {fn.name : fn \in Range(fns)} \union DOMAIN own
      /\ \A fn \in Range(fns) : env[fn.name] = fn.id
      /\ \A n \in DOMAIN own : env[n] = own[n] \/ \E fn \in Range(fns) : fn.name = n
  <2>1. env = Over(Meaning(fns), own) /\ \A f, g \in Range(fns) : f.name = g.name => f = g
    BY <1>5, <1>6
  <2>2. FunctionsOver(fns, own, env)
    BY ONLY <2>1, MeaningOver
  <2> QED BY ONLY <2>2 DEF FunctionsOver
<1>8. ASSUME NEW fn \in Range(fns)
      PROVE  \/ fn.id \in strays' /\ has(its, fn.name)
             \/ /\ ~ has(its, fn.name)
                /\ \E v \in varMap' \ varMap : v.id = fn.id /\ v.name = fn.name
  <2>1. Var(fn.name, FnCode(fn), c.frame, fn.id).id = fn.id /\ Var(fn.name, FnCode(fn), c.frame, fn.id).name = fn.name
    BY DEF Var
  <2> QED BY <2>1, OpenedList
<1>9. ASSUME NEW n \in DOMAIN env
      PROVE  env[n] \in strays' \/ FreshlyMeant(c, n)
  <2>1. ASSUME NEW fn \in Range(fns), fn.name = n PROVE env[n] \in strays' \/ FreshlyMeant(c, n)
    <3>1. env[n] = fn.id /\ fn.id \in Ahead(c)
      BY <1>4, <1>7, <2>1
    <3> QED BY <1>6, <1>8, <2>1, <3>1 DEF FreshlyMeant
  <2>2. ASSUME n \in DOMAIN own, env[n] = own[n] PROVE FreshlyMeant(c, n)
    <3>1. PICK x \in its \ varMap : x.name = n /\ x.id = own[n]
      BY <1>5, <2>2 DEF WithParameter
    <3>2. x.code \in DOMAIN printed /\ printed[x.code] = x.id
      BY <1>5, <3>1 DEF WithParameter
    <3>3. x \in varMap' \ varMap
      BY <3>1, OpenedList
    <3> QED BY <1>4, <1>6, <2>2, <3>1, <3>2, <3>3 DEF FreshlyMeant
  <2> QED BY <1>7, <2>1, <2>2
<1>10. ASSUME NEW v \in varMap' \ varMap
       PROVE  v.name \in DOMAIN env /\ (env[v.name] = v.id \/ (c.kind # "try" /\ env[v.name] \in strays'))
  <2>1. CASE v \notin its
    <3>1. PICK fn \in Range(fns) : v = Var(fn.name, FnCode(fn), c.frame, fn.id)
      BY <2>1, OpenedList
    <3>2. v.name = fn.name /\ v.id = fn.id
      BY <3>1 DEF Var
    <3> QED BY <1>7, <3>2
  <2>2. CASE v \in its
    <3>1. v.name \in DOMAIN own /\ own[v.name] = v.id /\ kind = "fn"
      BY <1>5, <2>2 DEF WithParameter
    <3>2. ASSUME NEW fn \in Range(fns), fn.name = v.name PROVE env[v.name] \in strays'
      <4>1. has(its, fn.name)
        BY <2>2, <3>2 DEF has
      <4> QED BY <1>7, <1>8, <3>2, <4>1
    <3> QED BY <1>4, <1>7, <3>1, <3>2
  <2> QED BY <2>1, <2>2
<1>11. \A i \in DOMAIN blocks' : Old(i) \/ (i = Top /\ blocks'[i] = c)
  BY <1>2 DEF Old
<1>12. blocks'[Top] = c
  BY <1>2
<1>13. ASSUME NEW i \in DOMAIN blocks', NEW n \in DOMAIN blocks'[i].env
       PROVE  \/ Old(i) /\ n \in DOMAIN blocks[i].env /\ blocks'[i].env[n] = blocks[i].env[n]
              \/ blocks'[i].env[n] \in strays'
              \/ i = Top /\ FreshlyMeant(blocks'[i], n)
  <2>1. CASE Old(i)
    BY <1>3, <1>13, <2>1 DEF Old
  <2>2. CASE i = Top /\ blocks'[i] = c
    BY <1>6, <1>9, <1>13, <2>2
  <2> QED BY <1>11, <2>1, <2>2
<1> QED BY <1>3, <1>6, <1>10, <1>12, <1>13 DEF MeaningGrows

LEMMA OpenedPrintGrows ==
  ASSUME ListTypes, BlockTypes, NEW kind, NEW parent, NEW its, NEW own, NEW printed, NEW fns, NEW from, NEW c,
         OpensBlock(kind, parent, its, own, printed, fns, from, c)
  PROVE  PrintGrows
<1>1. PICK K : K = Depth
  OBVIOUS
<1>2. /\ DOMAIN blocks = 1..K /\ Innermost = blocks[K] /\ K \in DOMAIN blocks
      /\ blocks'[K + 1] = c /\ blocks'[K] = parent
      /\ \A i \in DOMAIN blocks' : i = K + 1 \/ i \in DOMAIN blocks
  BY <1>1, OpenedPlaces
<1>3. \A i \in DOMAIN blocks : i # K => blocks'[i] = blocks[i]
  BY <1>1, <1>2, OpenedPlaces
<1>4. c.printed = printed
  BY OpenedBlock
<1>5. WithParameter(kind, its, own, printed, from) /\ PrintsOn(blocks[K], parent) /\ parent.since = blocks[K].since
  BY <1>2 DEF OpensBlock, GoesOn
<1>6. ASSUME NEW i \in DOMAIN blocks
      PROVE  \A v \in varMap :
               /\ v.code \in DOMAIN blocks[i].printed /\ blocks[i].printed[v.code] = v.id =>
                    v.code \in DOMAIN blocks'[i].printed /\ blocks'[i].printed[v.code] = v.id
               /\ v.id \in Ahead(blocks[i]) =>
                    \/ v.id \in Ahead(blocks'[i])
                    \/ v.code \in DOMAIN blocks'[i].printed /\ blocks'[i].printed[v.code] = v.id
  <2>1. CASE i = K
    BY <1>2, <1>5, <2>1 DEF PrintsOn
  <2>2. CASE i # K
    BY <1>3, <2>2
  <2> QED BY <2>1, <2>2
<1>7. ASSUME NEW i \in DOMAIN blocks', NEW code \in DOMAIN blocks'[i].printed
      PROVE  \/ Old(i) /\ code \in DOMAIN blocks[i].printed
             \/ \A v \in varMap : v.id <= blocks'[i].since => v.code # code
  <2>1. CASE i = K + 1
    BY <1>2, <1>4, <1>5, <1>7, <2>1 DEF WithParameter
  <2>2. CASE i = K
    BY <1>2, <1>5, <1>7, <2>2 DEF PrintsOn, Old
  <2>3. CASE i \in DOMAIN blocks /\ i # K
    BY <1>3, <1>7, <2>3 DEF Old
  <2> QED BY <1>2, <2>1, <2>2, <2>3
<1> QED BY <1>6, <1>7 DEF PrintGrows

LEMMA OpeningGrows ==
  ASSUME ScopesInvariant, NEW kind, NEW parent, NEW its, NEW own, NEW printed, NEW fns, NEW from, NEW c,
         OpensBlock(kind, parent, its, own, printed, fns, from, c)
  PROVE  Grows
<1>1. ListTypes /\ BlockTypes
  BY DEF ScopesInvariant
<1>2. ListGrows
  BY <1>1, OpenedListGrows
<1>3. BlocksGrow
  BY <1>1, OpenedBlocksGrow
<1>4. MeaningGrows
  BY <1>1, OpenedMeaningGrows
<1>5. PrintGrows
  BY <1>1, OpenedPrintGrows
<1> QED BY <1>2, <1>3, <1>4, <1>5 DEF Grows

----------------------------------------------------------------------------
(* A block, in which a statement has been read *)
LEMMA SpokenGoesOn ==
  ASSUME ScopesInvariant, Innermost.at # "group", NEW w, w = Spoken
  PROVE  IsBlock(w) /\ GoesOn(Innermost, w) /\ w.env = Innermost.env /\ PrintsOn(Innermost, w)
<1>1. PICK b : b = Innermost
  OBVIOUS
<1>2. IsBlock(b)
  BY <1>1, Places DEF ScopesInvariant, BlockTypes, Innermost, Last, Depth
<1>3. w = [kind |-> b.kind, frame |-> b.frame, fn |-> b.fn, since |-> b.since, env |-> b.env,
           printed |-> b.printed, todo |-> b.todo, at |-> "statements"]
  BY <1>1, <1>2 DEF Spoken, IsBlock
<1>4. IsBlock(w) /\ GoesOn(b, w) /\ w.env = b.env /\ w.printed = b.printed /\ w.todo = b.todo /\ w.at = "statements"
  BY ONLY <1>2, <1>3 DEF IsBlock, GoesOn
<1>5. Ahead(w) = Ahead(b)
  BY <1>1, <1>4 DEF Ahead
<1> QED BY <1>1, <1>4, <1>5 DEF PrintsOn

(* A block of which a function is begun: all of its group are printed by then. *)
GroupCodes(todo) == [code \in {FnCode(fn) : fn \in Together(todo)} |-> code[3]]
Begun(todo, rest, group) ==
  [Innermost EXCEPT
     !.printed = IF Innermost.at = "group" THEN @ ELSE Over(group, @),
     !.todo = rest,
     !.at = IF rest # <<>> /\ rest[1].group = todo[1].group THEN "group" ELSE "behind"]
LEMMA FunctionBegins ==
  ASSUME ScopesInvariant, Innermost.todo # <<>>, Innermost.at # "behind", NEW todo, todo = Innermost.todo,
         NEW group, group = GroupCodes(todo), NEW rest, rest = Tail(todo), NEW w, w = Begun(todo, rest, group)
  PROVE  IsBlock(w) /\ GoesOn(Innermost, w) /\ w.env = Innermost.env /\ PrintsOn(Innermost, w)
<1>1. PICK b, K : b = Innermost /\ K = Depth
  OBVIOUS
<1>2. IsBlock(b) /\ b = blocks[K] /\ K \in DOMAIN blocks /\ ListTypes /\ TodoGiven
  BY <1>1, Places DEF ScopesInvariant, BlockTypes, Innermost, Last, Depth
<1>3. PICK p, at : /\ p = IF b.at = "group" THEN b.printed ELSE Over(group, b.printed)
                   /\ at = IF rest # <<>> /\ rest[1].group = todo[1].group THEN "group" ELSE "behind"
  OBVIOUS
<1>4. w = [kind |-> b.kind, frame |-> b.frame, fn |-> b.fn, since |-> b.since, env |-> b.env,
           printed |-> p, todo |-> rest, at |-> at]
  <2>1. w = [b EXCEPT !.printed = IF b.at = "group" THEN @ ELSE Over(group, @), !.todo = rest, !.at = at]
    BY <1>1, <1>3 DEF Begun
  <2> QED BY <1>2, <1>3, <2>1 DEF IsBlock
<1>5. rest \in Seq(Range(rest)) /\ Range(rest) \subseteq Range(todo) /\ Range(todo) \subseteq Range(rest) \union {todo[1]}
  <2>1. PICK F, s, t : F = Range(todo) /\ s = todo /\ t = rest
    OBVIOUS
  <2>2. s \in Seq(F) /\ s # <<>> /\ t = Tail(s)
    BY <1>1, <1>2, <2>1 DEF IsBlock
  <2>3. t \in Seq(F) /\ Len(t) = Len(s) - 1 /\ \A i \in 1..Len(t) : t[i] = s[i + 1]
    BY <2>2, HeadTailProperties
  <2>4. t \in Seq(Range(t)) /\ Range(t) \subseteq F /\ DOMAIN t = 1..Len(t)
    BY <2>3, OwnRange, LenProperties
  <2>5. PICK n \in Nat : n = Len(s) /\ DOMAIN s = 1..n
    BY <2>2, LenProperties
  <2>6. \A i \in 1..n : i = 1 \/ (i - 1 \in 1..n - 1 /\ t[i - 1] = s[i])
    BY <2>3, <2>5
  <2>7. DOMAIN t = 1..n - 1
    BY <2>3, <2>4, <2>5
  <2>8. ASSUME NEW i \in 1..n PROVE s[i] \in Range(t) \union {s[1]}
    BY <2>6, <2>7 DEF Range
  <2>9. Range(s) \subseteq Range(t) \union {s[1]}
    BY <2>5, <2>8 DEF Range
  <2> QED BY <2>1, <2>4, <2>9
<1>6. IsBlock(w) /\ GoesOn(b, w) /\ w.env = b.env /\ w.printed = p /\ w.todo = rest /\ w.at = at
  <2>1. /\ w.kind = b.kind /\ w.frame = b.frame /\ w.fn = b.fn /\ w.since = b.since /\ w.env = b.env
        /\ w.printed = p /\ w.todo = rest /\ w.at = at
    BY ONLY <1>4, Zenon
  <2>2. IsBlock(w)
    BY <1>2, <1>4, <1>5, <2>1 DEF IsBlock
  <2>3. Range(w.todo) \subseteq Range(b.todo)
    BY <1>1, <1>5, <2>1
  <2> QED BY <2>1, <2>2, <2>3 DEF GoesOn
<1>7. Together(todo) = {fn \in Range(todo) : fn.group = todo[1].group}
  BY DEF Together
<1>8. ASSUME NEW fn \in Range(todo), fn.group # todo[1].group PROVE fn.id \in Ahead(w)
  <2>1. fn \in Range(rest)
    BY <1>5, <1>8
  <2>2. CASE at = "group"
    <3>1. rest[1].group = todo[1].group
      BY <1>3, <2>2
    <3>2. fn \notin Together(rest)
      BY <1>8, <3>1 DEF Together
    <3> QED BY <1>6, <2>1, <2>2, <3>2 DEF Ahead
  <2>3. CASE at # "group"
    BY <1>6, <2>1, <2>3 DEF Ahead
  <2> QED BY <2>2, <2>3
<1>9. /\ DOMAIN group = {FnCode(fn) : fn \in Together(todo)}
      /\ \A fn \in Together(todo) : FnCode(fn) \in DOMAIN group /\ group[FnCode(fn)] = fn.id
  BY DEF FnCode, GroupCodes
<1>10. ASSUME NEW v \in varMap, NEW fn \in Range(todo), v.code = FnCode(fn) PROVE v.id = fn.id
  <2>1. v.code \in {<<v.name, "fn", v.id>>, <<v.name, v.code[2]>>} /\ v.code = <<fn.name, "fn", fn.id>>
    BY <1>2, <1>10 DEF ListTypes, FnCode
  <2>2. v.code # <<v.name, v.code[2]>>
    BY <2>1
  <2> QED BY <2>1, <2>2
<1>11. CASE b.at = "group"
  <2>1. p = b.printed
    BY <1>3, <1>11
  <2>2. Ahead(b) \subseteq Ahead(w)
    BY <1>1, <1>7, <1>8, <1>11 DEF Ahead
  <2>3. PrintsOn(b, w)
    BY <1>6, <2>1, <2>2 DEF PrintsOn
  <2> QED BY <1>1, <1>6, <2>3
<1>12. CASE b.at # "group"
  <2>1. p = [x \in DOMAIN group \union DOMAIN b.printed |-> IF x \in DOMAIN group THEN group[x] ELSE b.printed[x]]
    BY <1>3, <1>12 DEF Over
  <2>2. ASSUME NEW v \in varMap, v.code \in DOMAIN group PROVE v.code \in DOMAIN p /\ p[v.code] = v.id
    <3>1. PICK fn \in Together(todo) : v.code = FnCode(fn)
      BY <1>9, <2>2
    <3>2. fn \in Range(todo)
      BY <1>7
    <3>3. v.id = fn.id
      BY <1>10, <3>1, <3>2
    <3>4. group[v.code] = fn.id
      BY <1>9, <3>1
    <3>5. v.code \in DOMAIN p /\ p[v.code] = group[v.code]
      BY <2>1, <2>2
    <3> QED BY <3>3, <3>4, <3>5
  <2>3. ASSUME NEW v \in varMap, v.code \in DOMAIN b.printed, b.printed[v.code] = v.id
        PROVE  v.code \in DOMAIN p /\ p[v.code] = v.id
    BY <2>1, <2>2, <2>3
  <2>4. ASSUME NEW v \in varMap, v.id \in Ahead(b)
        PROVE  v.id \in Ahead(w) \/ (v.code \in DOMAIN p /\ p[v.code] = v.id)
    <3>1. PICK fn \in Range(todo) : v.id = fn.id
      BY <1>1, <1>12, <2>4 DEF Ahead
    <3>2. v.code = FnCode(fn)
      BY <1>1, <1>2, <3>1 DEF TodoGiven
    <3>3. CASE fn.group = todo[1].group
      BY <1>7, <1>9, <2>2, <3>2, <3>3
    <3>4. CASE fn.group # todo[1].group
      BY <1>8, <3>1, <3>4
    <3> QED BY <3>3, <3>4
  <2>5. ASSUME NEW code \in DOMAIN p, code \notin DOMAIN b.printed, NEW v \in varMap, v.id <= b.since PROVE v.code # code
    <3>1. PICK fn \in Range(todo) : code = FnCode(fn)
      BY <1>7, <1>9, <2>1, <2>5
    <3>2. b.since < fn.id /\ fn.id \in Nat /\ b.since \in Nat
      BY <1>1, <1>2 DEF TodoGiven, IsBlock
    <3>3. v.id # fn.id
      BY <1>2, <2>5, <3>2 DEF ListTypes
    <3> QED BY <1>10, <3>1, <3>3
  <2>6. PrintsOn(b, w)
    BY <1>6, <2>3, <2>4, <2>5 DEF PrintsOn
  <2> QED BY <1>1, <1>6, <2>6
<1> QED BY <1>11, <1>12

LEMMA OpenBlockGrows ==
  ASSUME ScopesInvariant, NEW h \in Hoists, NEW kind \in {"block", "try"}, OpenBlock(kind, h)
  PROVE  Grows
<1>1. PICK w : w = Spoken
  OBVIOUS
<1>2. /\ Innermost.at # "group" /\ Open(kind, w, varMap, NoNames, NoNames, h, decls)
      /\ stacks' = IF kind = "fn" THEN Append(stacks, varStack(varMap)) ELSE stacks
  BY <1>1 DEF OpenBlock
<1>3. IsBlock(w) /\ GoesOn(Innermost, w) /\ w.env = Innermost.env /\ PrintsOn(Innermost, w)
  BY <1>1, <1>2, SpokenGoesOn
<1>4. WithParameter(kind, varMap, NoNames, NoNames, decls)
  BY NoParameter DEF ScopesInvariant
<1>5. \E fns, c : OpensBlock(kind, w, varMap, NoNames, NoNames, fns, decls, c)
  BY <1>2, <1>3, <1>4, OpenIsOpening
<1> QED BY <1>5, OpeningGrows

LEMMA OpenWithGrows ==
  ASSUME ScopesInvariant, NEW h \in Hoists, NEW p, NEW w, OpenWith(w, p, h), stacks' = Append(stacks, varStack(varMap)),
         IsBlock(w), GoesOn(Innermost, w), w.env = Innermost.env, PrintsOn(Innermost, w)
  PROVE  Grows
<1>1. PICK id, code, its, own, printed :
        /\ id = decls + 1 /\ code = name(varMap, p)
        /\ its = varMap \union {Var(p, code, Innermost.frame + 1, id)}
        /\ own = Only(p, id) /\ printed = Only(code, id)
  OBVIOUS
<1>2. Open("fn", w, its, own, printed, h, id)
  BY <1>1 DEF OpenWith
<1>3. WithParameter("fn", its, own, printed, id)
  BY <1>1, OneParameter DEF ScopesInvariant
<1>4. \E fns, c : OpensBlock("fn", w, its, own, printed, fns, id, c)
  BY <1>2, <1>3, OpenIsOpening
<1> QED BY <1>4, OpeningGrows

LEMMA OpenClosureGrows ==
  ASSUME ScopesInvariant, NEW h \in Hoists, NEW p, OpenClosure(p, h)
  PROVE  Grows
<1>1. PICK w : w = Spoken
  OBVIOUS
<1>2. Innermost.at # "group" /\ OpenWith(w, p, h) /\ stacks' = Append(stacks, varStack(varMap))
  BY <1>1 DEF OpenClosure
<1>3. IsBlock(w) /\ GoesOn(Innermost, w) /\ w.env = Innermost.env /\ PrintsOn(Innermost, w)
  BY <1>1, <1>2, SpokenGoesOn
<1> QED BY <1>2, <1>3, OpenWithGrows

LEMMA OpenFnGrows ==
  ASSUME ScopesInvariant, NEW h \in Hoists, NEW p, OpenFn(p, h)
  PROVE  Grows
<1>1. PICK todo, rest, group :
        /\ todo = Innermost.todo /\ rest = Tail(todo)
        /\ group = GroupCodes(todo)
  OBVIOUS
<1>2. PICK w : w = Begun(todo, rest, group)
  OBVIOUS
<1>3. /\ todo # <<>> /\ Innermost.at # "behind" /\ stacks' = Append(stacks, varStack(varMap))
      /\ IF p = NoParam THEN Open("fn", w, varMap, NoNames, NoNames, h, decls) ELSE OpenWith(w, p, h)
  BY <1>1, <1>2 DEF OpenFn, Begun, GroupCodes
<1>4. IsBlock(w) /\ GoesOn(Innermost, w) /\ w.env = Innermost.env /\ PrintsOn(Innermost, w)
  BY <1>1, <1>2, <1>3, FunctionBegins
<1>5. CASE p = NoParam
  <2>1. WithParameter("fn", varMap, NoNames, NoNames, decls)
    BY NoParameter DEF ScopesInvariant
  <2>2. \E fns, c : OpensBlock("fn", w, varMap, NoNames, NoNames, fns, decls, c)
    BY <1>3, <1>4, <1>5, <2>1, OpenIsOpening
  <2> QED BY <2>2, OpeningGrows
<1>6. CASE p # NoParam
  BY <1>3, <1>4, <1>6, OpenWithGrows
<1> QED BY <1>5, <1>6

----------------------------------------------------------------------------
LEMMA ScopesBegin ==
  ASSUME ScopesInit
  PROVE  ScopesInvariant
<1>1. PICK b : b = Opened("root", 1, 1, 0, NoNames, NoNames, <<>>)
  OBVIOUS
<1>2. varMap = {} /\ stacks = <<{}>> /\ strays = {} /\ decls = 0 /\ blocks = <<b>>
  BY <1>1 DEF ScopesInit
<1>3. /\ b = [kind |-> "root", frame |-> 1, fn |-> 1, since |-> 0, env |-> NoNames, printed |-> NoNames,
              todo |-> <<>>, at |-> "statements"]
      /\ DOMAIN NoNames = {}
  <2>1. PICK none : none = NoNames
    OBVIOUS
  <2>2. b = [kind |-> "root", frame |-> 1, fn |-> 1, since |-> 0, env |-> none, printed |-> none,
             todo |-> <<>>, at |-> "statements"]
    BY <1>1, <2>1 DEF Opened
  <2>3. DOMAIN NoNames = {}
    BY DEF NoNames
  <2> QED BY <2>1, <2>2, <2>3
<1>4. /\ b.kind = "root" /\ b.frame = 1 /\ b.fn = 1 /\ b.since = 0 /\ b.env = NoNames /\ b.printed = NoNames
      /\ b.todo = <<>> /\ b.at = "statements"
  BY ONLY <1>3, Zenon
<1>5. Range(<<>>) = {} /\ <<>> \in Seq(Range(<<>>))
  BY DEF Range
<1>6. IsBlock(b)
  BY <1>3, <1>4, <1>5 DEF IsBlock
<1>7. Len(blocks) = 1 /\ DOMAIN blocks = {1} /\ blocks[1] = b /\ blocks \in Seq(Range(blocks))
  <2>1. PICK F, s : F = {b} /\ s = blocks
    OBVIOUS
  <2>2. s \in Seq(F) /\ Len(s) = 1 /\ s[1] = b /\ DOMAIN s = {1}
    BY <1>2, <2>1
  <2>3. s \in Seq(Range(s))
    BY <2>2, OwnRange
  <2> QED BY <2>1, <2>2, <2>3
<1>8. Len(stacks) = 1 /\ DOMAIN stacks = {1} /\ stacks[1] = {} /\ stacks \in Seq(Range(stacks))
  <2>1. PICK F, s : F = {{}} /\ s = stacks
    OBVIOUS
  <2>2. s \in Seq(F) /\ Len(s) = 1 /\ s[1] = {} /\ DOMAIN s = {1}
    BY <1>2, <2>1
  <2>3. s \in Seq(Range(s))
    BY <2>2, OwnRange
  <2> QED BY <2>1, <2>2, <2>3
<1>9. ListTypes
  BY <1>2, FS_EmptySet DEF ListTypes
<1>10. BlockTypes
  <2>1. Depth = 1 /\ Innermost = b
    BY <1>7 DEF Depth, Innermost, Last
  <2> QED BY <1>2, <1>4, <1>6, <1>7, <1>8, <2>1 DEF BlockTypes
<1>11. FramesFollow /\ ListedIsMeant /\ PrintedAnew
  BY <1>2 DEF FramesFollow, ListedIsMeant, PrintedAnew
<1>12. TodoGiven /\ MeantIsListed /\ MeantIsPrinted
  BY <1>2, <1>3, <1>4, <1>5, <1>7 DEF TodoGiven, MeantIsListed, MeantIsPrinted
<1>13. StacksFollow
  BY <1>2, <1>4, <1>7, <1>8 DEF StacksFollow
<1> QED BY <1>9, <1>10, <1>11, <1>12, <1>13 DEF ScopesInvariant

LEMMA ScopesStep ==
  ASSUME ScopesInvariant, [ScopesNext]_scvars
  PROVE  ScopesInvariant'
<1>1. CASE UNCHANGED scvars
  BY <1>1 DEF scvars, ScopesInvariant, ListTypes, BlockTypes, FramesFollow, TodoGiven, MeantIsListed, ListedIsMeant,
     MeantIsPrinted, PrintedAnew, StacksFollow, Depth, Innermost, Of, Newest
<1>2. ASSUME NEW n \in Idents, DeclareVar(n) PROVE ScopesInvariant'
  BY <1>2, DeclareGrows, GrowthKeeps
<1>3. ASSUME NEW h \in Hoists, NEW kind \in {"block", "try"}, OpenBlock(kind, h) PROVE ScopesInvariant'
  BY <1>3, OpenBlockGrows, GrowthKeeps
<1>4. ASSUME NEW h \in Hoists, NEW p \in Idents \union {NoParam}, OpenFn(p, h) PROVE ScopesInvariant'
  BY <1>4, OpenFnGrows, GrowthKeeps
<1>5. ASSUME NEW h \in Hoists, NEW p \in Idents, OpenClosure(p, h) PROVE ScopesInvariant'
  BY <1>5, OpenClosureGrows, GrowthKeeps
<1>6. CASE Close
  BY <1>6, CloseKeeps
<1> QED BY <1>1, <1>2, <1>3, <1>4, <1>5, <1>6 DEF ScopesNext

(* The list of variables, the blocks, what names mean in them and what is  *)
(* printed follow each other while AST::_node and AST::_block walk a        *)
(* program: for any names, any functions of a block and any depth.          *)
THEOREM ScopesInvariantHolds == ScopesSpec => []ScopesInvariant
<1>1. ScopesInit => ScopesInvariant
  BY ScopesBegin
<1>2. ScopesInvariant /\ [ScopesNext]_scvars => ScopesInvariant'
  BY ScopesStep
<1> QED BY <1>1, <1>2, PTL DEF ScopesSpec

(* A name refers to what it means, in VarMap and in the printed C text, and *)
(* no function declares what it may get from around it.                     *)
THEOREM ScopesAgreeHolds == ScopesSpec => []ScopesAgree
<1>1. ScopesInvariant => ScopesAgree
  BY InvariantAgrees
<1> QED BY <1>1, ScopesInvariantHolds, PTL
==============================================================================
