--------------------------- MODULE ActivationProofs ---------------------------
(***************************************************************************)
(* The printed file is complete whatever a program mentions, and no        *)
(* activation goes on for ever: the theorems of Activation, for every      *)
(* program and every table that satisfies the assumptions of ActivationInv. *)
(***************************************************************************)
EXTENDS ActivationInv, IntervalLemmas

(* The innermost activation has one dependency less. *)
Less(frame, n) == [frame EXCEPT !.rest = @ \ {n}]
LEMMA LessTypes ==
  ASSUME NEW N, NEW l \in [node : N, rest : SUBSET N], NEW n, NEW w, w = Less(l, n)
  PROVE  w \in [node : N, rest : SUBSET N] /\ w.node = l.node /\ w.rest = l.rest \ {n}
BY DEF Less

----------------------------------------------------------------------------
(* A step follows one name n: whoever asks for it is told, and n is on      *)
(* already or its own activation begins.                                    *)
Kept(n) == \A i \in 1..Len(path) : /\ path'[i].node = path[i].node
                                   /\ path'[i].rest \subseteq path[i].rest
                                   /\ path[i].rest \ {n} \subseteq path'[i].rest
Begins(n) == /\ ~ Skipped(n) /\ Len(path') = Len(path) + 1
             /\ path'[Len(path) + 1].node = n /\ path'[Len(path) + 1].rest = Deps(n)
             /\ on' = (IF n \in DOMAIN HeadersOf THEN on ELSE on \cup {n})
             /\ flags' = flags \cup FlagsOf(n)
Ignored(n) == Skipped(n) /\ Len(path') = Len(path) /\ on' = on /\ flags' = flags
AskedFor(n) == /\ Len(path) = 0 => n \in Mentions(program)
               /\ Len(path) # 0 => n \in Deps(path[Len(path)].node)
Follows(n) == /\ program' = program /\ unknown' = unknown
              /\ n \in Names(program.throws) /\ AskedFor(n)
              /\ path' \in Seq(FrameTypes(program.throws)) /\ Kept(n)
              /\ Begins(n) \/ Ignored(n)

(* What the invariant says of the path and of the program. *)
LEMMA PathTypes ==
  ASSUME ActivationTypes
  PROVE  /\ Len(path) \in Nat /\ DOMAIN path = 1..Len(path)
         /\ path = <<>> <=> Len(path) = 0
         /\ \A i \in 1..Len(path) : /\ path[i].node \in Names(program.throws)
                                     /\ path[i].rest \subseteq Names(program.throws)
         /\ program.throws \in BOOLEAN /\ Mentions(program) \subseteq Names(program.throws)
<1>1. PICK F : F = FrameTypes(program.throws)
  OBVIOUS
<1>2. path \in Seq(F)
  BY <1>1 DEF ActivationTypes
<1>3. Len(path) \in Nat /\ DOMAIN path = 1..Len(path) /\ path \in [1..Len(path) -> F]
  BY <1>2, LenProperties
<1>4. path = <<>> <=> Len(path) = 0
  BY <1>2, EmptySeq
<1>5. \A i \in 1..Len(path) : path[i] \in [node : Names(program.throws), rest : SUBSET Names(program.throws)]
  BY <1>1, <1>3 DEF FrameTypes
<1>6. \A i \in 1..Len(path) : /\ path[i].node \in Names(program.throws)
                              /\ path[i].rest \subseteq Names(program.throws)
  BY <1>5
<1>7. program.throws \in BOOLEAN /\ Mentions(program) \subseteq Names(program.throws)
  BY ProgramsKnown DEF ActivationTypes
<1> QED BY <1>3, <1>4, <1>6, <1>7

(* The frame of an activation that begins *)
LEMMA FrameOf ==
  ASSUME NEW n \in Names(program.throws), program.throws \in BOOLEAN, NEW w, w = Frame(n)
  PROVE  w \in FrameTypes(program.throws) /\ w.node = n /\ w.rest = Deps(n)
<1>1. Deps(n) \subseteq Names(program.throws)
  BY NamesClosed DEF Deps
<1>2. PICK d : d = Deps(n)
  OBVIOUS
<1>3. w = [node |-> n, rest |-> d]
  BY <1>2 DEF Frame
<1>4. w \in [node : Names(program.throws), rest : SUBSET Names(program.throws)] /\ w.node = n /\ w.rest = d
  BY <1>1, <1>2, <1>3
<1> QED BY <1>2, <1>4 DEF FrameTypes

(* A mention follows a name of the program. *)
LEMMA MentionFollows ==
  ASSUME ActivationInvariant, Mention
  PROVE  \E n : Follows(n) /\ n \in todo /\ todo' = todo \ {n}
<1>1. PICK n : n = CHOOSE m \in todo : TRUE
  OBVIOUS
<1>2. /\ ActivationTypes /\ program' = program
  BY DEF ActivationInvariant, Mention
<1>3. /\ path = <<>> /\ n \in todo /\ todo' = todo \ {n}
      /\ ~ Known(n) => unknown' = unknown \cup {n} /\ UNCHANGED <<path, on, flags>>
      /\ Known(n) => /\ unknown' = unknown
                     /\ Skipped(n) => UNCHANGED <<path, on, flags>>
                     /\ ~ Skipped(n) => Activate(n, <<>>)
  BY <1>1 DEF Mention
<1>4. /\ n \in Mentions(program) /\ n \in Names(program.throws) /\ program.throws \in BOOLEAN
      /\ Len(path) = 0 /\ path \in Seq(FrameTypes(program.throws))
  BY <1>2, <1>3, PathTypes DEF ActivationTypes
<1>5. Known(n) /\ AskedFor(n) /\ unknown' = unknown
  BY <1>3, <1>4 DEF Known, AskedFor
<1>6. Kept(n)
  BY <1>4 DEF Kept
<1>7. CASE Skipped(n)
  BY <1>2, <1>3, <1>4, <1>5, <1>6, <1>7 DEF Follows, Ignored
<1>8. CASE ~ Skipped(n)
  <2>1. Activate(n, <<>>)
    BY <1>3, <1>5, <1>8
  <2>2. PICK F, w : F = FrameTypes(program.throws) /\ w = Frame(n)
    OBVIOUS
  <2>3. w \in F /\ w.node = n /\ w.rest = Deps(n)
    BY <1>4, <2>2, FrameOf
  <2>4. path' = Append(path, w) /\ path \in Seq(F)
    BY <1>3, <1>4, <2>1, <2>2 DEF Activate
  <2>5. path' \in Seq(F) /\ Len(path') = Len(path) + 1 /\ path'[Len(path) + 1] = w
    BY <2>3, <2>4, OneMoreOnTop
  <2>6. Begins(n)
    BY <1>8, <2>1, <2>3, <2>5 DEF Begins, Activate
  <2> QED BY <1>2, <1>3, <1>4, <1>5, <1>6, <2>2, <2>5, <2>6 DEF Follows
<1> QED BY <1>7, <1>8

(* A dependency that is reached is followed. *)
LEMMA ReachFollows ==
  ASSUME ActivationInvariant, Reach
  PROVE  todo' = todo /\ \E n : Follows(n)
<1>1. PICK F, n : F = FrameTypes(program.throws) /\ n = CHOOSE m \in Last(path).rest : TRUE
  OBVIOUS
<1>2. PICK w, below : w = Less(Last(path), n) /\ below = OnTop(path, w)
  OBVIOUS
<1>3. ActivationTypes /\ PathDescends /\ path # <<>> /\ program' = program /\ todo' = todo
  BY DEF ActivationInvariant, Reach
<1>4. /\ n \in Last(path).rest
      /\ ~ Known(n) => unknown' = unknown \cup {n} /\ path' = below /\ UNCHANGED <<on, flags>>
      /\ Known(n) => /\ unknown' = unknown
                     /\ Skipped(n) => path' = below /\ UNCHANGED <<on, flags>>
                     /\ ~ Skipped(n) => Activate(n, below)
  BY <1>1, <1>2 DEF Reach, Less, OnTop, Butlast, Front
<1>5. path \in Seq(F)
  BY <1>1, <1>3 DEF ActivationTypes
<1>6. /\ Len(path) \in Nat \ {0} /\ DOMAIN path = 1..Len(path) /\ Len(path) \in DOMAIN path
      /\ program.throws \in BOOLEAN
  <2>1. Len(path) \in Nat /\ DOMAIN path = 1..Len(path) /\ Len(path) # 0 /\ program.throws \in BOOLEAN
    BY <1>3, PathTypes
  <2> QED BY <2>1
<1>7. Last(path) = path[Len(path)] /\ Last(path) \in F
  BY <1>3, <1>5, LastTypes DEF Last
<1>8. w \in F /\ w.node = path[Len(path)].node /\ w.rest = path[Len(path)].rest \ {n}
  <2>1. PICK l : l = path[Len(path)]
    OBVIOUS
  <2>2. l \in [node : Names(program.throws), rest : SUBSET Names(program.throws)] /\ w = Less(l, n)
    BY <1>1, <1>2, <1>7, <2>1 DEF FrameTypes
  <2>3. /\ w \in [node : Names(program.throws), rest : SUBSET Names(program.throws)]
        /\ w.node = l.node /\ w.rest = l.rest \ {n}
    BY <2>2, LessTypes
  <2> QED BY <1>1, <2>1, <2>3 DEF FrameTypes
<1>9. below \in Seq(F) /\ Len(below) = Len(path) /\ below[Len(path)] = w
  <2>1. w \in F
    BY <1>8
  <2>2. below \in Seq(F) /\ Len(below) = Len(path)
    BY <1>2, <1>3, <1>5, <2>1, ReplacedTypes
  <2>3. below[Len(path)] = w
    BY ONLY <1>2, <1>3, <1>5, <2>1, ReplacedTop
  <2> QED BY <2>2, <2>3
<1>10. \A i \in 1..Len(path) : i # Len(path) => below[i] = path[i]
  <2>1. w \in F
    BY <1>8
  <2> QED BY ONLY <1>2, <1>3, <1>5, <2>1, ReplacedBelow
<1>11. \A i \in 1..Len(path) : /\ below[i].node = path[i].node /\ below[i].rest \subseteq path[i].rest
                               /\ path[i].rest \ {n} \subseteq below[i].rest
  <2>1. ASSUME NEW i \in 1..Len(path)
        PROVE  /\ below[i].node = path[i].node /\ below[i].rest \subseteq path[i].rest
               /\ path[i].rest \ {n} \subseteq below[i].rest
    <3>1. CASE i = Len(path)
      BY <1>8, <1>9, <3>1
    <3>2. CASE i # Len(path)
      <4>1. below[i] = path[i]
        BY <1>10, <3>2
      <4> QED BY <4>1
    <3> QED BY <3>1, <3>2
  <2> QED BY <2>1
<1>12. n \in path[Len(path)].rest /\ path[Len(path)].rest \subseteq Deps(path[Len(path)].node)
  BY <1>3, <1>4, <1>6, <1>7 DEF PathDescends
<1>13. n \in Names(program.throws) /\ Known(n) /\ AskedFor(n)
  <2>1. path[Len(path)].rest \subseteq Names(program.throws)
    BY <1>3, <1>6, PathTypes
  <2> QED BY <1>6, <1>12, <2>1 DEF Known, AskedFor
<1>14. CASE Skipped(n)
  <2>1. path' = below /\ on' = on /\ flags' = flags /\ unknown' = unknown
    BY <1>4, <1>13, <1>14
  <2>2. Kept(n)
    BY <1>11, <2>1 DEF Kept
  <2>3. Ignored(n) /\ path' \in Seq(F)
    BY <1>9, <1>14, <2>1 DEF Ignored
  <2> QED BY <1>1, <1>3, <1>13, <2>1, <2>2, <2>3 DEF Follows
<1>15. CASE ~ Skipped(n)
  <2>1. Activate(n, below) /\ unknown' = unknown
    BY <1>4, <1>13, <1>15
  <2>2. PICK v : v = Frame(n)
    OBVIOUS
  <2>3. v \in F /\ v.node = n /\ v.rest = Deps(n)
    <3>1. n \in Names(program.throws) /\ program.throws \in BOOLEAN
      BY <1>6, <1>13
    <3>2. v \in FrameTypes(program.throws) /\ v.node = n /\ v.rest = Deps(n)
      BY ONLY <2>2, <3>1, FrameOf
    <3> QED BY <1>1, <3>2
  <2>4. path' = Append(below, v)
    <3>1. path' = Append(below, Frame(n))
      BY <2>1 DEF Activate
    <3> QED BY <2>2, <3>1
  <2>5. v \in F /\ below \in Seq(F)
    BY <1>9, <2>3
  <2>6. /\ path' \in Seq(F) /\ Len(path') = Len(below) + 1 /\ path'[Len(below) + 1] = v
        /\ \A i \in 1..Len(below) : path'[i] = below[i]
    <3>1. path' \in Seq(F) /\ Len(path') = Len(below) + 1
      BY ONLY <2>4, <2>5, OneMoreOnTop
    <3>2. path'[Len(below) + 1] = v
      BY ONLY <2>4, <2>5, OneMoreOnTop
    <3>3. \A i \in 1..Len(below) : path'[i] = below[i]
      BY ONLY <2>4, <2>5, OneMoreOnTop
    <3> QED BY <3>1, <3>2, <3>3
  <2>7. Kept(n)
    <3>1. \A i \in 1..Len(path) : path'[i] = below[i]
      BY <1>9, <2>6
    <3> QED BY <1>11, <3>1 DEF Kept
  <2>8. Begins(n)
    <3>1. Len(path') = Len(path) + 1 /\ path'[Len(path) + 1] = v
      BY <1>9, <2>6
    <3> QED BY <1>15, <2>1, <2>3, <3>1 DEF Begins, Activate
  <2> QED BY <1>1, <1>3, <1>13, <2>1, <2>6, <2>7, <2>8 DEF Follows
<1> QED BY <1>3, <1>14, <1>15

----------------------------------------------------------------------------
(* What is owed, name by name *)
LEMMA OwedIs ==
  ASSUME NEW F, path \in Seq(F)
  PROVE  \A x : x \in Owed <=> \E i \in 1..Len(path) : x \in path[i].rest
<1>1. DOMAIN path = 1..Len(path)
  BY LenProperties
<1> QED BY <1>1, Zenon DEF Owed

LEMMA OwedNextIs ==
  ASSUME NEW F, path' \in Seq(F)
  PROVE  \A x : x \in Owed' <=> \E i \in 1..Len(path') : x \in path'[i].rest
<1>1. DOMAIN path' = 1..Len(path')
  BY LenProperties
<1> QED BY <1>1, Zenon DEF Owed

(* What was on or owed is so still, but for the name that is followed. *)
LEMMA ComingKept ==
  ASSUME ActivationTypes, NEW n, Follows(n)
  PROVE  /\ \A x : x \in Coming /\ x # n => x \in Coming'
         /\ Begins(n) => \A x \in Deps(n) : x \in Coming'
         /\ on \subseteq on' /\ on' \subseteq on \cup {n}
<1>1. on \subseteq on' /\ on' \subseteq on \cup {n}
  BY DEF Follows, Begins, Ignored
<1>2. PICK F : F = FrameTypes(program.throws)
  OBVIOUS
<1>3. path \in Seq(F) /\ path' \in Seq(F)
  BY <1>2 DEF ActivationTypes, Follows
<1>4. Len(path) \in Nat /\ Len(path') \in Nat
  BY <1>3, LenProperties
<1>5. ASSUME NEW x \in Coming, x # n PROVE x \in Coming'
  <2>1. CASE x \in on
    BY <1>1, <2>1 DEF Coming
  <2>2. CASE x \in Owed
    <3>1. PICK i \in 1..Len(path) : x \in path[i].rest
      BY <1>3, <2>2, OwedIs
    <3>2. x \in path'[i].rest
      BY <1>5, <3>1 DEF Follows, Kept
    <3>3. i \in 1..Len(path')
      BY <1>4 DEF Follows, Begins, Ignored
    <3>4. x \in Owed'
      BY <1>3, <3>2, <3>3, OwedNextIs
    <3> QED BY <3>4 DEF Coming
  <2> QED BY <1>5, <2>1, <2>2 DEF Coming
<1>6. ASSUME Begins(n), NEW x \in Deps(n) PROVE x \in Coming'
  <2>1. Len(path) + 1 \in 1..Len(path') /\ x \in path'[Len(path) + 1].rest
    BY <1>4, <1>6 DEF Begins
  <2>2. x \in Owed'
    BY <1>3, <2>1, OwedNextIs
  <2> QED BY <2>2 DEF Coming
<1> QED BY <1>1, <1>5, <1>6

(* Nothing that was seen is lost, and the name that is followed is seen. *)
LEMMA SeenKept ==
  ASSUME ActivationTypes, NEW n, Follows(n)
  PROVE  (\A x : Seen(x) => Seen(x)') /\ Seen(n)'
<1>1. Seen(n)'
  <2>1. CASE n \in on'
    BY <2>1 DEF Seen, Coming
  <2>2. CASE n \notin on'
    <3>1. Begins(n) /\ n \in DOMAIN HeadersOf
      BY <2>2 DEF Follows, Begins, Ignored, Skipped
    <3>2. Deps(n) = HeadersOf[n]
      BY <3>1 DEF Deps, DepsOf, Listed
    <3> QED BY <3>1, <3>2, ComingKept DEF Seen
  <2> QED BY <2>1, <2>2
<1>2. n \in Builtins => n \in Coming'
  BY <1>1, NamesApart DEF Seen
<1>3. ASSUME NEW x, Seen(x) PROVE Seen(x)'
  <2>1. CASE x \in Coming
    <3>1. CASE x = n
      BY <1>1, <3>1
    <3>2. CASE x # n
      BY <2>1, <3>2, ComingKept DEF Seen
    <3> QED BY <3>1, <3>2
  <2>2. CASE x \in DOMAIN HeadersOf /\ HeadersOf[x] \subseteq Coming
    <3>1. HeadersOf[x] \subseteq Builtins
      BY <2>2, NamesClosed
    <3>2. HeadersOf[x] \subseteq Coming'
      BY <1>2, <2>2, <3>1, ComingKept
    <3> QED BY <2>2, <3>2 DEF Seen
  <2> QED BY <1>3, <2>1, <2>2 DEF Seen
<1> QED BY <1>1, <1>3

(* Names that are neither C symbols nor mentioned first are what can be on. *)
LEMMA FollowsTypes ==
  ASSUME ActivationTypes, NEW n, Follows(n), todo' \subseteq todo
  PROVE  ActivationTypes'
<1>1. on' \subseteq Emitted(program.throws)
  <2>1. n \in on' => n \in Emitted(program.throws)
    BY DEF Follows, Begins, Ignored, Skipped, ActivationTypes, Names, Emitted
  <2> QED BY <2>1, ComingKept DEF ActivationTypes
<1>2. todo' \subseteq Mentions(program')
  BY DEF ActivationTypes, Follows
<1> QED BY <1>1, <1>2 DEF ActivationTypes, Follows

LEMMA FollowsForgetsNothing ==
  ASSUME ActivationTypes, NothingForgotten, NEW n, Follows(n), todo \ {n} \subseteq todo'
  PROVE  NothingForgotten'
<1>1. program' = program
  BY DEF Follows
<1>2. \A m \in Mentions(program) : m \in todo' \/ Seen(m)'
  BY SeenKept DEF NothingForgotten
<1>3. ASSUME NEW k \in on', NEW d \in Deps(k) PROVE Seen(d)'
  <2>1. CASE k \in on
    BY <1>3, <2>1, SeenKept DEF NothingForgotten
  <2>2. CASE k \notin on
    <3>1. k = n /\ Begins(n)
      BY <1>3, <2>2, ComingKept DEF Follows, Ignored
    <3> QED BY <1>3, <3>1, ComingKept DEF Seen
  <2> QED BY <2>1, <2>2
<1>4. \A k \in on' : FlagsOf(k) \subseteq flags'
  <2>1. ASSUME NEW k \in on' PROVE FlagsOf(k) \subseteq flags'
    <3>1. CASE k \in on
      BY <3>1 DEF NothingForgotten, Follows, Begins, Ignored
    <3>2. CASE k \notin on
      BY <3>2, ComingKept DEF Follows, Begins, Ignored
    <3> QED BY <3>1, <3>2
  <2> QED BY <2>1
<1>5. \A k \in on' : \A d \in Deps(k)' : Seen(d)'
  BY <1>1, <1>3 DEF Deps
<1>6. Mentions(program)' = Mentions(program)
  BY <1>1
<1> QED BY <1>2, <1>4, <1>5, <1>6 DEF NothingForgotten

(* A walked name depends on no C symbol's headers: below a walked name only *)
(* a runtime function can ask for another walked name.                      *)
LEMMA WalkedAsks ==
  ASSUME program.throws \in BOOLEAN, NEW f \in Walked, NEW n \in Walked, n \in Deps(f)
  PROVE  f \in DOMAIN Runtime /\ (n \in DOMAIN Runtime => Height(n) < Height(f))
<1>1. f \notin DOMAIN HeadersOf
  <2>1. ASSUME f \in DOMAIN HeadersOf PROVE FALSE
    <3>1. Deps(f) = HeadersOf[f]
      BY <2>1 DEF Deps, DepsOf, Listed
    <3> QED BY <2>1, <3>1, NamesClosed, NamesApart DEF Walked
  <2> QED BY <2>1
<1> QED BY <1>1, HeightFalls DEF Walked, Deps

(* Only one place can be new on a path. *)
LEMMA NewPlace ==
  ASSUME NEW K \in Nat, NEW M, M = K \/ M = K + 1, NEW i \in 1..M
  PROVE  i \in Nat \ {0} /\ (i \in 1..K \/ (i = K + 1 /\ M = K + 1))
OBVIOUS

(* A path that grows still falls. *)
LEMMA FollowsDescends ==
  ASSUME ActivationTypes, PathDescends, NEW n, Follows(n)
  PROVE  PathDescends'
<1>1. /\ Len(path) \in Nat /\ DOMAIN path = 1..Len(path) /\ program.throws \in BOOLEAN
      /\ \A i \in 1..Len(path) : path[i].node \in Names(program.throws)
  BY PathTypes
<1>2. PICK F : F = FrameTypes(program.throws)
  OBVIOUS
<1>3. path' \in Seq(F) /\ program' = program
  BY <1>2 DEF Follows
<1>4. DOMAIN path' = 1..Len(path')
  BY <1>3, LenProperties
<1>5. \A i \in 1..Len(path) : path'[i].node = path[i].node /\ path'[i].rest \subseteq path[i].rest
  BY DEF Follows, Kept
<1>6. /\ Len(path') = Len(path) \/ Len(path') = Len(path) + 1
      /\ Len(path') # Len(path) => Begins(n)
  BY DEF Follows, Begins, Ignored
<1>7. \A i \in DOMAIN path' : i \in Nat \ {0} /\ (i \in 1..Len(path) \/ (i = Len(path) + 1 /\ Begins(n)))
  <2>1. ASSUME NEW i \in DOMAIN path'
        PROVE  i \in Nat \ {0} /\ (i \in 1..Len(path) \/ (i = Len(path) + 1 /\ Begins(n)))
    <3>1. PICK K, M : K = Len(path) /\ M = Len(path')
      OBVIOUS
    <3>2. K \in Nat /\ (M = K \/ M = K + 1) /\ i \in 1..M /\ (M # K => Begins(n))
      BY <1>1, <1>4, <1>6, <3>1
    <3>3. i \in Nat \ {0} /\ (i \in 1..K \/ (i = K + 1 /\ M = K + 1))
      BY ONLY <3>2, NewPlace
    <3>4. M = K + 1 => M # K
      BY <3>2
    <3> QED BY <3>1, <3>2, <3>3, <3>4
  <2> QED BY <2>1
<1>8. ASSUME NEW i \in DOMAIN path'
      PROVE  path'[i].rest \subseteq DepsOf(program.throws, path'[i].node) /\ path'[i].node \in on' \cup DOMAIN HeadersOf
  <2>1. CASE i \in 1..Len(path)
    BY <1>1, <1>3, <1>5, <2>1, ComingKept DEF PathDescends, Deps
  <2>2. CASE i \notin 1..Len(path)
    <3>1. i = Len(path) + 1 /\ Begins(n)
      BY <1>7, <1>8, <2>2
    <3>2. path'[i].node = n /\ path'[i].rest = DepsOf(program.throws, n)
      BY <3>1 DEF Begins, Deps
    <3>3. n \in on' \/ n \in DOMAIN HeadersOf
      BY <3>1 DEF Begins
    <3> QED BY <3>2, <3>3
  <2> QED BY <2>1, <2>2
<1>9. ASSUME NEW i \in DOMAIN path', NEW j \in DOMAIN path', i < j
      PROVE  /\ path'[i].node = path'[j].node => path'[i].node \in Walked
             /\ AllWalked(i, j)' => Falls(i, j)'
  <2>1. i \in Nat /\ j \in Nat /\ i \in 1..Len(path) /\ (j \in 1..Len(path) \/ (j = Len(path) + 1 /\ Begins(n)))
    <3>1. PICK K : K = Len(path)
      OBVIOUS
    <3>2. /\ K \in Nat /\ i \in Nat \ {0} /\ (i \in 1..K \/ i = K + 1)
          /\ j \in Nat \ {0} /\ (j \in 1..K \/ (j = K + 1 /\ Begins(n)))
      BY <1>1, <1>7, <1>9, <3>1
    <3>3. i \in 1..K
      BY <1>9, <3>2
    <3> QED BY <3>1, <3>2, <3>3
  <2>2. CASE j \in 1..Len(path)
    <3>1. \A k \in i..j : path'[k].node = path[k].node
      BY <1>5, <2>1, <2>2
    <3>2. i \in i..j /\ j \in i..j
      BY <1>9, <2>1
    <3>3. AllWalked(i, j)' => AllWalked(i, j)
      BY <3>1 DEF AllWalked
    <3>4. /\ path[i].node = path[j].node => path[i].node \in Walked
          /\ AllWalked(i, j) => Falls(i, j)
      BY <1>1, <1>9, <2>1, <2>2 DEF PathDescends
    <3>5. path'[i].node = path[i].node /\ path'[j].node = path[j].node
      BY <3>1, <3>2
    <3> QED BY <3>3, <3>4, <3>5 DEF Falls
  <2>3. CASE j = Len(path) + 1 /\ Begins(n)
    <3>1. path'[j].node = n /\ ~ Skipped(n) /\ Len(path) # 0
      <4>1. path'[j].node = n /\ ~ Skipped(n)
        BY <2>3 DEF Begins
      <4>2. Len(path) # 0
        BY <1>1, <2>1
      <4> QED BY <4>1, <4>2
    <3>2. path'[i].node = path[i].node /\ path[i].node \in on \cup DOMAIN HeadersOf
      BY <1>1, <1>5, <2>1 DEF PathDescends
    <3>3. path'[i].node = path'[j].node => path'[i].node \in Walked
      BY <3>1, <3>2 DEF Skipped, Walked
    <3>4. ASSUME AllWalked(i, j)' PROVE Falls(i, j)'
      <4> DEFINE l == Len(path)
      <4>1. l \in i..l /\ l \in 1..Len(path) /\ i \in i..l /\ \A k \in i..l : k \in i..j /\ k \in 1..Len(path)
        BY <1>1, <2>1, <2>3
      <4>2. \A k \in i..l : path[k].node \in Walked
        BY <1>5, <3>4, <4>1 DEF AllWalked
      <4>3. n \in Walked
        BY <1>9, <2>1, <3>1, <3>4 DEF AllWalked
      <4>4. n \in Deps(path[l].node)
        BY <3>1 DEF Follows, AskedFor
      <4>5. path[l].node \in DOMAIN Runtime /\ (n \in DOMAIN Runtime => Height(n) < Height(path[l].node))
        BY <1>1, <4>1, <4>2, <4>3, <4>4, WalkedAsks
      <4>6. CASE i = l
        BY <3>1, <3>2, <4>5, <4>6 DEF Falls
      <4>7. CASE i # l
        <5>1. i < l /\ i \in DOMAIN path /\ l \in DOMAIN path /\ AllWalked(i, l)
          BY <1>1, <2>1, <4>1, <4>2, <4>7 DEF AllWalked
        <5>2. Falls(i, l)
          BY <5>1 DEF PathDescends
        <5>3. path[i].node \in DOMAIN Runtime /\ Height(path[l].node) < Height(path[i].node)
          BY <4>5, <5>2 DEF Falls
        <5>4. n \in DOMAIN Runtime => Height(n) < Height(path[i].node)
          <6>1. ASSUME n \in DOMAIN Runtime PROVE Height(n) < Height(path[i].node)
            <7>1. PICK a, b, c : a = Height(n) /\ b = Height(path[l].node) /\ c = Height(path[i].node)
              OBVIOUS
            <7>2. a \in Nat /\ b \in Nat /\ c \in Nat
              BY <4>5, <5>3, <6>1, <7>1, HeightFalls
            <7>3. a < b /\ b < c
              BY <4>5, <5>3, <6>1, <7>1
            <7>4. a < c
              BY ONLY <7>2, <7>3
            <7> QED BY <7>1, <7>4
          <6> QED BY <6>1
        <5> QED BY <3>1, <3>2, <5>3, <5>4 DEF Falls
      <4> QED BY <4>6, <4>7
    <3> QED BY <3>3, <3>4
  <2> QED BY <2>1, <2>2, <2>3
<1>10. \A i \in DOMAIN path' : /\ path'[i].rest \subseteq DepsOf(program'.throws, path'[i].node)
                               /\ path'[i].node \in on' \cup DOMAIN HeadersOf
  BY <1>3, <1>8
<1> QED BY <1>9, <1>10 DEF PathDescends, Deps

(* Whatever is followed was asked for. *)
LEMMA FollowsCalledFor ==
  ASSUME ActivationTypes, PathDescends, NothingUncalledFor, NEW n, Follows(n)
  PROVE  NothingUncalledFor'
<1>1. /\ Len(path) \in Nat /\ DOMAIN path = 1..Len(path) /\ program.throws \in BOOLEAN
      /\ path # <<>> <=> Len(path) # 0
  BY PathTypes
<1>2. PICK F : F = FrameTypes(program.throws)
  OBVIOUS
<1>3. path' \in Seq(F) /\ program' = program
  BY <1>2 DEF Follows
<1>4. DOMAIN path' = 1..Len(path')
  BY <1>3, LenProperties
<1>5. \A i \in 1..Len(path) : path'[i].node = path[i].node
  BY DEF Follows, Kept
<1>6. ASSUME NEW i \in DOMAIN path'
      PROVE  path'[i].node \in IF i = 1 THEN Mentions(program) ELSE DepsOf(program.throws, path'[i - 1].node)
  <2>1. CASE i \in 1..Len(path)
    <3>1. path[i].node \in IF i = 1 THEN Mentions(program) ELSE Deps(path[i - 1].node)
      BY <1>1, <2>1 DEF NothingUncalledFor
    <3>2. i # 1 => i - 1 \in 1..Len(path)
      BY <1>1, <2>1
    <3> QED BY <1>5, <2>1, <3>1, <3>2 DEF Deps
  <2>2. CASE i \notin 1..Len(path)
    <3>1. i = Len(path) + 1 /\ path'[i].node = n
      <4>1. PICK K, M : K = Len(path) /\ M = Len(path')
        OBVIOUS
      <4>2. K \in Nat /\ (M = K \/ M = K + 1) /\ i \in 1..M /\ i \notin 1..K
        BY <1>1, <1>4, <1>6, <2>2, <4>1 DEF Follows, Begins, Ignored
      <4>3. i = K + 1 /\ M # K
        BY ONLY <4>2, NewPlace
      <4> QED BY <4>1, <4>3 DEF Follows, Begins, Ignored
    <3>2. i = 1 <=> Len(path) = 0
      BY <1>1, <3>1
    <3>3. i # 1 => i - 1 \in 1..Len(path) /\ i - 1 = Len(path)
      BY <1>1, <3>1
    <3>4. i # 1 => path'[i - 1].node = path[Len(path)].node
      BY <1>5, <3>3
    <3>5. AskedFor(n)
      BY DEF Follows
    <3>6. CASE i = 1
      BY <3>1, <3>2, <3>5, <3>6 DEF AskedFor
    <3>7. CASE i # 1
      BY <3>1, <3>2, <3>4, <3>5, <3>7 DEF AskedFor, Deps
    <3> QED BY <3>6, <3>7
  <2> QED BY <2>1, <2>2
<1>7. ASSUME NEW b \in on' \cap Builtins
      PROVE  b \in AskedBy(Mentions(program)) \/ \E k \in on' : b \in AskedBy(DepsOf(program.throws, k))
  <2>1. CASE b \in on
    <3>1. b \in AskedBy(Mentions(program)) \/ \E k \in on : b \in AskedBy(Deps(k))
      BY <1>7, <2>1 DEF NothingUncalledFor
    <3> QED BY <3>1, ComingKept DEF Deps
  <2>2. CASE b \notin on
    <3>1. b = n /\ AskedFor(n)
      BY <1>7, <2>2, ComingKept DEF Follows
    <3>2. CASE Len(path) = 0
      BY <1>7, <3>1, <3>2 DEF AskedFor, AskedBy
    <3>3. CASE Len(path) # 0
      <4>1. PICK l, k : l = Len(path) /\ k = path[l].node
        OBVIOUS
      <4>2. l \in DOMAIN path /\ b \in Deps(k) /\ k \in on \cup DOMAIN HeadersOf
        BY <1>1, <3>1, <3>3, <4>1 DEF AskedFor, PathDescends
      <4>3. CASE k \in on
        <5>1. b \in AskedBy(DepsOf(program.throws, k))
          BY <1>7, <4>2 DEF AskedBy, Deps
        <5> QED BY <4>3, <5>1, ComingKept
      <4>4. CASE k \in DOMAIN HeadersOf
        <5>1. Deps(k) = HeadersOf[k]
          BY <4>4 DEF Deps, DepsOf, Listed
        <5>2. \A deps : k \in deps => b \in AskedBy(deps)
          BY <4>2, <4>4, <5>1 DEF AskedBy
        <5>3. CASE l = 1
          <6>1. k \in Mentions(program)
            BY <4>1, <4>2, <5>3 DEF NothingUncalledFor
          <6> QED BY <5>2, <6>1
        <5>4. CASE l # 1
          <6>1. PICK m : m = path[l - 1].node
            OBVIOUS
          <6>2. k \in Deps(m)
            BY <4>1, <4>2, <5>4, <6>1 DEF NothingUncalledFor
          <6>3. l - 1 \in DOMAIN path
            BY <1>1, <4>1, <4>2, <5>4
          <6>4. m \in on \cup DOMAIN HeadersOf
            BY <6>1, <6>3 DEF PathDescends
          <6>5. m \notin DOMAIN HeadersOf
            <7>1. ASSUME m \in DOMAIN HeadersOf PROVE FALSE
              <8>1. Deps(m) = HeadersOf[m]
                BY <7>1 DEF Deps, DepsOf, Listed
              <8> QED BY <4>4, <6>2, <7>1, <8>1, NamesClosed, NamesApart
            <7> QED BY <7>1
          <6> QED BY <5>2, <6>2, <6>4, <6>5, ComingKept DEF Deps
        <5> QED BY <5>3, <5>4
      <4> QED BY <4>2, <4>3, <4>4
    <3> QED BY <3>2, <3>3
  <2> QED BY <2>1, <2>2
<1>8. \A i \in DOMAIN path' : path'[i].node \in IF i = 1 THEN Mentions(program') ELSE DepsOf(program'.throws, path'[i - 1].node)
  BY <1>3, <1>6
<1>9. \A b \in on' \cap Builtins : \/ b \in AskedBy(Mentions(program)')
                                     \/ \E k \in on' : b \in AskedBy(DepsOf(program'.throws, k))
  BY <1>3, <1>7
<1> QED BY <1>8, <1>9 DEF NothingUncalledFor, Deps

(* A name whose turn comes keeps the invariant. *)
LEMMA FollowsKeeps ==
  ASSUME ActivationInvariant, NEW n, Follows(n), todo' \subseteq todo, todo \ {n} \subseteq todo'
  PROVE  ActivationInvariant'
<1>1. ActivationTypes /\ KnownNames /\ NothingForgotten /\ PathDescends /\ NothingUncalledFor
  BY DEF ActivationInvariant
<1>2. ActivationTypes'
  BY <1>1, FollowsTypes
<1>3. KnownNames'
  BY <1>1 DEF KnownNames, Follows
<1>4. NothingForgotten'
  BY <1>1, FollowsForgetsNothing
<1>5. PathDescends'
  BY <1>1, FollowsDescends
<1>6. NothingUncalledFor'
  BY <1>1, FollowsCalledFor
<1> QED BY <1>2, <1>3, <1>4, <1>5, <1>6 DEF ActivationInvariant

(* An activation that has reached all of its dependencies owes nothing. *)
LEMMA ReturnKeeps ==
  ASSUME ActivationInvariant, Return
  PROVE  ActivationInvariant'
<1>1. ActivationTypes /\ KnownNames /\ NothingForgotten /\ PathDescends /\ NothingUncalledFor
  BY DEF ActivationInvariant
<1>2. /\ path # <<>> /\ Last(path).rest = {} /\ path' = Butlast(path)
      /\ program' = program /\ todo' = todo /\ on' = on /\ flags' = flags /\ unknown' = unknown
  BY DEF Return, Front, Butlast
<1>3. PICK F : F = FrameTypes(program.throws)
  OBVIOUS
<1>4. path \in Seq(F)
  BY <1>1, <1>3 DEF ActivationTypes
<1>5. path' \in Seq(F) /\ Len(path') = Len(path) - 1 /\ Len(path) \in Nat \ {0}
  BY <1>2, <1>4, OneLessOnTop
<1>6. \A i \in 1..Len(path') : path'[i] = path[i]
  BY ONLY <1>2, <1>4, OneLessOnTop
<1>7. DOMAIN path = 1..Len(path) /\ DOMAIN path' = 1..Len(path') /\ path[Len(path)].rest = {}
  <2>1. DOMAIN path = 1..Len(path) /\ DOMAIN path' = 1..Len(path')
    BY <1>4, <1>5, LenProperties
  <2>2. Last(path) = path[Len(path)]
    BY DEF Last
  <2> QED BY <1>2, <2>1, <2>2
<1>8. \A i \in DOMAIN path' : i \in DOMAIN path /\ path'[i] = path[i]
  BY <1>5, <1>6, <1>7
<1>9. \A i \in DOMAIN path : i \in DOMAIN path' \/ i = Len(path)
  BY <1>5, <1>7
<1>10. \A x : x \in Coming' <=> x \in Coming
  <2>1. \A x : x \in Owed' <=> \E i \in 1..Len(path') : x \in path'[i].rest
    BY <1>5, OwedNextIs
  <2>2. \A x : x \in Owed <=> \E i \in 1..Len(path) : x \in path[i].rest
    BY <1>4, OwedIs
  <2>3. ASSUME NEW x \in Owed PROVE x \in Owed'
    <3>1. PICK i \in 1..Len(path) : x \in path[i].rest
      BY <2>2, <2>3
    <3>2. i \in 1..Len(path')
      BY <1>7, <1>9, <3>1
    <3>3. path'[i] = path[i]
      BY <1>6, <3>2
    <3> QED BY <2>1, <3>1, <3>2, <3>3
  <2>4. ASSUME NEW x \in Owed' PROVE x \in Owed
    <3>1. PICK i \in 1..Len(path') : x \in path'[i].rest
      BY <2>1, <2>4
    <3>2. i \in 1..Len(path) /\ path'[i] = path[i]
      BY <1>7, <1>8, <3>1
    <3> QED BY <2>2, <3>1, <3>2
  <2> QED BY <1>2, <2>3, <2>4 DEF Coming
<1>11. \A x : Seen(x)' <=> Seen(x)
  BY <1>10 DEF Seen
<1>12. ActivationTypes'
  BY <1>1, <1>2, <1>3, <1>5 DEF ActivationTypes
<1>13. NothingForgotten'
  BY <1>1, <1>2, <1>11 DEF NothingForgotten, Deps
<1>14. PathDescends'
  <2>1. \A i \in DOMAIN path' : /\ path'[i].rest \subseteq DepsOf(program'.throws, path'[i].node)
                                /\ path'[i].node \in on' \cup DOMAIN HeadersOf
    BY <1>1, <1>2, <1>8 DEF PathDescends, Deps
  <2>2. ASSUME NEW i \in DOMAIN path', NEW j \in DOMAIN path', i < j
        PROVE  /\ path'[i].node = path'[j].node => path'[i].node \in Walked
               /\ AllWalked(i, j)' => Falls(i, j)'
    <3>1. i \in DOMAIN path /\ j \in DOMAIN path /\ path'[i] = path[i] /\ path'[j] = path[j]
      BY <1>8
    <3>2. i..j \subseteq DOMAIN path'
      BY <1>5, <1>7
    <3>3. AllWalked(i, j)' => AllWalked(i, j)
      BY <1>8, <3>2 DEF AllWalked
    <3> QED BY <1>1, <2>2, <3>1, <3>3 DEF PathDescends, Falls
  <2> QED BY <2>1, <2>2 DEF PathDescends, Deps
<1>15. NothingUncalledFor'
  <2>1. ASSUME NEW i \in DOMAIN path'
        PROVE  path'[i].node \in IF i = 1 THEN Mentions(program) ELSE DepsOf(program.throws, path'[i - 1].node)
    <3>1. i \in DOMAIN path /\ path'[i] = path[i]
      BY <1>8
    <3>2. i # 1 => i - 1 \in DOMAIN path'
      BY <1>5, <1>7
    <3>3. i # 1 => path'[i - 1] = path[i - 1]
      BY <1>8, <3>2
    <3> QED BY <1>1, <3>1, <3>3 DEF NothingUncalledFor, Deps
  <2>2. \A i \in DOMAIN path' :
          path'[i].node \in IF i = 1 THEN Mentions(program') ELSE DepsOf(program'.throws, path'[i - 1].node)
    BY <1>2, <2>1
  <2>3. \A b \in on' \cap Builtins : \/ b \in AskedBy(Mentions(program'))
                                     \/ \E k \in on' : b \in AskedBy(DepsOf(program'.throws, k))
    BY <1>1, <1>2 DEF NothingUncalledFor, Deps
  <2> QED BY <2>2, <2>3 DEF NothingUncalledFor, Deps
<1> QED BY <1>1, <1>2, <1>12, <1>13, <1>14, <1>15 DEF ActivationInvariant, KnownNames

(* Before the first mention nothing is on. *)
LEMMA InitHolds ==
  ASSUME Init
  PROVE  ActivationInvariant
<1>1. /\ program \in Programs /\ todo = Mentions(program)
      /\ path = <<>> /\ on = {} /\ flags = {} /\ unknown = {}
  BY DEF Init, Mentions
<1>2. PICK F : F = FrameTypes(program.throws)
  OBVIOUS
<1>3. path \in Seq(F) /\ Len(path) = 0
  BY <1>1, EmptySeq
<1>4. DOMAIN path = {}
  <2>1. DOMAIN path = 1..Len(path)
    BY <1>3, LenProperties
  <2> QED BY <1>3, <2>1
<1>5. ActivationTypes
  BY <1>1, <1>2, <1>3 DEF ActivationTypes
<1>6. NothingForgotten
  BY <1>1 DEF NothingForgotten
<1>7. PathDescends
  BY <1>4 DEF PathDescends
<1>8. NothingUncalledFor
  BY <1>1, <1>4 DEF NothingUncalledFor
<1> QED BY <1>1, <1>5, <1>6, <1>7, <1>8 DEF ActivationInvariant, KnownNames

(* No mention and no dependency is dropped, no name is unknown, the path of *)
(* activations under way falls, and nothing is on that nobody asked for     *)
(* (_activateBuiltin, _activateEntity, Codegen::_).                         *)
THEOREM ActivationInvariantHolds == Spec => []ActivationInvariant
<1>1. ActivationInvariant /\ [Next]_vars => ActivationInvariant'
  <2> SUFFICES ASSUME ActivationInvariant, [Next]_vars PROVE ActivationInvariant'
    OBVIOUS
  <2>1. CASE Mention
    <3>1. PICK n : Follows(n) /\ n \in todo /\ todo' = todo \ {n}
      BY <2>1, MentionFollows
    <3> QED BY <3>1, FollowsKeeps
  <2>2. CASE Reach
    <3>1. PICK n : Follows(n) /\ todo' = todo
      BY <2>2, ReachFollows
    <3> QED BY <3>1, FollowsKeeps
  <2>3. CASE Return
    BY <2>3, ReturnKeeps
  <2>4. CASE UNCHANGED vars
    BY <2>4 DEF vars, ActivationInvariant, ActivationTypes, KnownNames, NothingForgotten, PathDescends, AllWalked,
                Falls, NothingUncalledFor, Seen, Coming, Owed, Deps
  <2> QED BY <2>1, <2>2, <2>3, <2>4 DEF Next, Printed
<1> QED BY <1>1, InitHolds, PTL DEF Spec

----------------------------------------------------------------------------
(* An activation that came back to its own name without a guarded one in    *)
(* between would have fallen below its own height (helpers.cpp:426).        *)
THEOREM NoEndlessActivationHolds == Spec => []NoEndlessActivation
<1>1. ActivationInvariant => NoEndlessActivation
  <2> SUFFICES ASSUME ActivationInvariant, NEW i \in DOMAIN path, NEW j \in DOMAIN path, i < j,
                      path[i].node = path[j].node
               PROVE  /\ path[i].node \in DOMAIN Runtime \cup DOMAIN HeadersOf
                      /\ \E k \in i..j : path[k].node \in Builtins \cup DOMAIN EntityAt[program.throws]
    BY DEF NoEndlessActivation
  <2>1. /\ path[i].node \in Walked /\ (AllWalked(i, j) => Falls(i, j))
        /\ DOMAIN path = 1..Len(path) /\ Len(path) \in Nat
        /\ \A k \in 1..Len(path) : path[k].node \in Names(program.throws)
    BY PathTypes DEF ActivationInvariant, PathDescends
  <2>2. ASSUME \A k \in i..j : path[k].node \notin Builtins \cup DOMAIN EntityAt[program.throws]
        PROVE  FALSE
    <3>1. i..j \subseteq 1..Len(path)
      BY <2>1
    <3>2. AllWalked(i, j)
      BY <2>1, <2>2, <3>1 DEF AllWalked, Walked, Names
    <3>3. path[i].node \in DOMAIN Runtime /\ Height(path[i].node) < Height(path[i].node)
      BY <2>1, <3>2 DEF Falls
    <3>4. PICK h : h = Height(path[i].node)
      OBVIOUS
    <3>5. h \in Nat /\ h < h
      BY <3>3, <3>4, HeightFalls
    <3> QED BY ONLY <3>5
  <2> QED BY <2>1, <2>2 DEF Walked
<1> QED BY <1>1, ActivationInvariantHolds, PTL

(* When all is done, what was seen is on. *)
LEMMA SeenIsOn ==
  ASSUME ActivationInvariant, Done, NEW x, Seen(x)
  PROVE  /\ x \in on \/ (x \in DOMAIN HeadersOf /\ HeadersOf[x] \subseteq on)
         /\ x \notin DOMAIN HeadersOf => x \in on
<1>1. PICK F : F = FrameTypes(program.throws)
  OBVIOUS
<1>2. path \in Seq(F) /\ Len(path) = 0
  BY <1>1, EmptySeq DEF Done, ActivationInvariant, ActivationTypes
<1>3. Owed = {}
  BY <1>2, OwedIs
<1> QED BY <1>3 DEF Seen, Coming

(* When all is done, whatever a name that is on reaches was seen: the       *)
(* nearest that was not would be a dependency of one that was.              *)
LEMMA ReachedIsSeen ==
  ASSUME ActivationInvariant, Done, NEW n \in on, NEW m \in Reached(program.throws, n)
  PROVE  Seen(m)
<1>1. PICK d : d = Distance(program.throws, n)
  OBVIOUS
<1>2. /\ program.throws \in BOOLEAN /\ n \in Emitted(program.throws) /\ NothingForgotten
  BY PathTypes DEF ActivationInvariant, ActivationTypes
<1>3. \A x \in DOMAIN d : /\ d[x] \in Nat
                          /\ x = n \/ \E k \in DOMAIN d : d[k] < d[x] /\ x \in DepsOf(program.throws, k)
  BY <1>1, <1>2, DistancesRight DEF Witnesses
<1> DEFINE Missed == {x \in DOMAIN d : ~ Seen(x)}
           Far == {d[x] : x \in Missed}
<1>4. ASSUME NEW y \in Missed PROVE FALSE
  <2>1. Far \in SUBSET Nat /\ Far # {}
    BY <1>3, <1>4
  <2>2. PICK least \in Far : \A f \in Far : least <= f
    <3> HIDE DEF Far
    <3> QED BY <2>1, SmallestMember
  <2>3. PICK x \in Missed : least = d[x]
    BY <2>2
  <2>4. x \in DOMAIN d /\ ~ Seen(x) /\ d[x] \in Nat
    BY <1>3, <2>3
  <2>5. x # n
    BY <2>4 DEF Seen, Coming
  <2>6. PICK k \in DOMAIN d : d[k] < d[x] /\ x \in DepsOf(program.throws, k)
    BY <1>3, <2>4, <2>5
  <2>7. Seen(k)
    <3>1. ASSUME ~ Seen(k) PROVE FALSE
      <4>1. k \in Missed
        BY <3>1, <2>6
      <4>2. d[k] \in Far
        BY <4>1
      <4>3. d[x] <= d[k]
        BY <2>2, <2>3, <4>2
      <4>4. PICK a, b : a = d[k] /\ b = d[x]
        OBVIOUS
      <4>5. a \in Nat /\ b \in Nat /\ a < b /\ b <= a
        BY <1>3, <2>4, <2>6, <4>3, <4>4
      <4> QED BY ONLY <4>5
    <3> QED BY <3>1
  <2>8. CASE k \in on
    BY <1>2, <2>4, <2>6, <2>8 DEF NothingForgotten, Deps
  <2>9. CASE k \in DOMAIN HeadersOf /\ HeadersOf[k] \subseteq on
    <3>1. x \in HeadersOf[k]
      BY <2>6, <2>9 DEF DepsOf, Listed
    <3> QED BY <2>4, <2>9, <3>1 DEF Seen, Coming
  <2> QED BY <2>7, <2>8, <2>9, SeenIsOn
<1>5. m \in DOMAIN d
  BY <1>1 DEF Reached
<1> QED BY <1>4, <1>5

(* What is there among the names that one reaches is there in the file. *)
LEMMA AvailableInFile ==
  ASSUME ActivationInvariant, Done, NEW n \in on, NEW u, Available(u, Reached(program.throws, n))
  PROVE  Available(u, on)
<1>1. ASSUME NEW m \in Reached(program.throws, n), m \notin DOMAIN HeadersOf PROVE m \in on
  BY <1>1, ReachedIsSeen, SeenIsOn
<1>2. \A b \in Builtins : Included(b, Reached(program.throws, n)) => Included(b, on)
  <2>1. "libStdlib" \in Builtins /\ "libInttypes" \in Builtins
    BY DEF Builtins, PlainHeaders
  <2>2. \A b \in Builtins : b \notin DOMAIN HeadersOf
    BY NamesApart
  <2> QED BY <1>1, <2>1, <2>2 DEF Included
<1>3. CASE u \in Builtins
  BY <1>2, <1>3 DEF Available
<1>4. CASE u \notin Builtins /\ u \in DOMAIN HeadersOf
  BY <1>2, <1>4, NamesClosed DEF Available
<1>5. CASE u \notin Builtins /\ u \notin DOMAIN HeadersOf
  BY <1>1, <1>5 DEF Available
<1> QED BY <1>3, <1>4, <1>5

(* A longer list of flags makes no line shorter. *)
LEMMA LineGrows ==
  ASSUME NEW fs, NEW gs, fs \subseteq gs, NEW b, Linked(b, fs)
  PROVE  Linked(b, gs)
<1>1. \A os : Line(fs, os) \subseteq Line(gs, os)
  BY DEF Line
<1> QED BY <1>1 DEF Linked

(* The library behind each header that is on is on every line. *)
LEMMA LibrariesOnLine ==
  ASSUME ActivationInvariant, Done, NEW b \in on \cap Builtins
  PROVE  Linked(b, flags)
<1>1. /\ program.throws \in BOOLEAN /\ program \in Programs /\ on \subseteq Emitted(program.throws)
      /\ NothingForgotten /\ NothingUncalledFor
  BY PathTypes DEF ActivationInvariant, ActivationTypes
<1>2. CASE b \in AskedBy(Mentions(program))
  <2>1. Linked(b, FlagsOf(b)) /\ FlagsOf(b) \subseteq flags
    BY <1>1, <1>2, ProgramsKnown DEF NothingForgotten
  <2> QED BY <2>1, LineGrows
<1>3. CASE \E n \in on : b \in AskedBy(Deps(n))
  <2>1. PICK n \in on : b \in AskedBy(Deps(n))
    BY <1>3
  <2>2. Linked(b, FlagsReached(program.throws, n))
    BY <1>1, <2>1, EachComplete DEF Deps
  <2>3. ASSUME NEW m \in Reached(program.throws, n) \cap Emitted(program.throws) PROVE FlagsOf(m) \subseteq flags
    <3>1. m \notin DOMAIN HeadersOf
      BY <1>1, <2>3, NamesApart DEF Emitted
    <3>2. m \in on
      BY <3>1, ReachedIsSeen, SeenIsOn
    <3> QED BY <1>1, <3>2 DEF NothingForgotten
  <2>4. FlagsReached(program.throws, n) \subseteq flags
    BY <2>3 DEF FlagsReached
  <2> QED BY <2>2, <2>4, LineGrows
<1> QED BY <1>1, <1>2, <1>3 DEF NothingUncalledFor

(* Whatever a program mentions, the printed file has what its code mentions, *)
(* no error passes a function unaware of it, and it links everywhere.        *)
THEOREM FileCompleteHolds == Spec => []FileComplete
<1>1. ActivationInvariant => FileComplete
  <2> SUFFICES ASSUME ActivationInvariant PROVE FileComplete
    OBVIOUS
  <2>1. /\ program.throws \in BOOLEAN /\ on \subseteq Emitted(program.throws)
    BY PathTypes DEF ActivationInvariant, ActivationTypes
  <2>2. KnownNames
    BY DEF ActivationInvariant
  <2>3. FileClosed
    <3> SUFFICES ASSUME Done, NEW u \in Mentioned PROVE Available(u, on)
      BY DEF FileClosed
    <3>1. PICK n \in on : u \in UsesOf(program.throws, n)
      BY DEF Mentioned
    <3>2. Available(u, Reached(program.throws, n))
      BY <2>1, <3>1, EachComplete
    <3> QED BY <3>2, AvailableInFile
  <2>4. ErrorsDeclared
    BY <2>1, EachComplete DEF ErrorsDeclared, Functions
  <2>5. Links
    BY LibrariesOnLine DEF Links, LinkLine, Linked
  <2> QED BY <2>2, <2>3, <2>4, <2>5 DEF FileComplete
<1> QED BY <1>1, ActivationInvariantHolds, PTL

(* A printed struct has all that it holds by value printed with it, and a    *)
(* builtin struct its parts: the half of DefinedBeforeUse that is about what *)
(* a program happens to mention. The other half is the order of a table.     *)
THEOREM PartsPrintedHolds == Spec => []PartsPrinted
<1>1. ActivationInvariant => PartsPrinted
  <2> SUFFICES ASSUME ActivationInvariant, Done PROVE PartsPrinted
    BY DEF PartsPrinted
  <2>1. /\ program.throws \in BOOLEAN /\ NothingForgotten
    BY PathTypes DEF ActivationInvariant, ActivationTypes
  <2>2. ASSUME NEW e \in Generated, e.struct, NEW m \in e.inner PROVE m \in on
    <3>1. PICK n \in on \cap DOMAIN EntityAt[program.throws] : e = EntityAt[program.throws][n]
      BY DEF Generated
    <3>2. m \in e.uses /\ m \in DOMAIN EntityAt[program.throws]
      BY <2>1, <2>2, <3>1, PartsNamed
    <3>3. n \notin DOMAIN HeadersOf \cup DOMAIN Runtime \cup Builtins /\ m \notin DOMAIN HeadersOf
      BY <2>1, <3>1, <3>2, NamesApart
    <3>4. m \in Deps(n)
      BY <3>1, <3>2, <3>3 DEF Deps, DepsOf, Listed
    <3>5. Seen(m)
      BY <2>1, <3>1, <3>4 DEF NothingForgotten
    <3> QED BY <3>3, <3>5, SeenIsOn
  <2>3. ASSUME NEW b \in on \cap DOMAIN CompleteFirst, NEW m \in CompleteFirst[b] PROVE m \in on
    <3>1. b \in Builtins /\ m \in Builtins /\ m \in AskedBy(Pulls(b))
      BY <2>3, PartsNamed
    <3>2. b \notin DOMAIN HeadersOf /\ b \notin DOMAIN Runtime /\ m \notin DOMAIN HeadersOf
      BY <3>1, NamesApart
    <3>3. Deps(b) = Pulls(b)
      BY <3>1, <3>2 DEF Deps, DepsOf, Listed
    <3>4. CASE m \in Pulls(b)
      BY <2>1, <2>3, <3>2, <3>3, <3>4, SeenIsOn DEF NothingForgotten
    <3>5. CASE \E s \in Pulls(b) \cap DOMAIN HeadersOf : m \in HeadersOf[s]
      <4>1. PICK s \in Pulls(b) \cap DOMAIN HeadersOf : m \in HeadersOf[s]
        BY <3>5
      <4>2. Seen(s)
        BY <2>1, <2>3, <3>3, <4>1 DEF NothingForgotten
      <4>3. s \notin on
        <5>1. on \subseteq Emitted(program.throws)
          BY DEF ActivationInvariant, ActivationTypes
        <5> QED BY <2>1, <4>1, <5>1, NamesApart DEF Emitted
      <4> QED BY <4>1, <4>2, <4>3, SeenIsOn
    <3> QED BY <3>1, <3>4, <3>5 DEF AskedBy
  <2> QED BY <2>2, <2>3 DEF PartsPrinted
<1> QED BY <1>1, ActivationInvariantHolds, PTL
===============================================================================
