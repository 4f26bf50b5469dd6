---------------------------- MODULE StringCalls ----------------------------
(***************************************************************************)
(* One call of a function of Strings or Urls with any arguments of the     *)
(* constants.  last is the call that was made: its name, its arguments and *)
(* what it returned.                                                       *)
(***************************************************************************)
EXTENDS Strings, Urls

CONSTANTS Texts,        \* strings to search, cut and replace in
          Needles,      \* what is searched for, split at and replaced
          Replacements, \* what is put in its place
          Counts,       \* how often (n3 of str_replace)
          Indices,      \* positions given to slice and the index operator
          Behind,       \* what memory may hold behind a string
          Pieces,       \* strings with blanks, line breaks and quotes
          Names,        \* names a directory may hold
          Paths,
          Numerals, Radixes, Half, Long,   \* texts of numbers, the widths of a type and of long
          URLs

\* Digits are the characters from 48 on: no radix that takes letters, or guesses (0).
ASSUME RadixesAssumption == Radixes \subseteq Nat \ ({0} \union 11..36)
ASSUME WidthsAssumption == Half \in Nat \ {0} /\ Long \in Nat /\ Half <= Long

VARIABLE last
vars == last

Call(fn, args, out) == [fn |-> fn, args |-> args, out |-> out]
None == Call("none", <<>>, <<>>)
Init == last = None

CallContains == \E s \in Texts, n \in Needles :
  last' = Call("contains", <<s, n>>, str_contains(s, n))
CallFind == \E s \in Texts, n \in Needles, behind \in Behind :
  last' = Call("find", <<s, n, behind>>, str_find(s, n, behind))
CallCompare == \E s \in Texts, t \in Texts, behind \in Behind :
  last' = Call("compare", <<s, t>>,
               [lt |-> str_lt(s, t, behind), gt |-> str_gt(s, t, behind),
                le |-> str_le(s, t, behind), ge |-> str_ge(s, t, behind)])
CallSlice == \E s \in Texts, o1, o2 \in {0, 1}, n1, n2 \in Indices :
  /\ o1 = 0 => n1 = 0 /\ o2 = 0
  /\ o2 = 0 => n2 = 0
  /\ last' = Call("slice", <<s, o1, n1, o2, n2>>, str_slice(s, o1, n1, o2, n2))
CallIndex == \E s \in Texts, i \in Indices : last' = Call("at", <<s, i>>, str_at(s, i))
CallSplit == \E s \in Texts, n \in Needles : last' = Call("split", <<s, n>>, str_split(s, n))
CallReplace == \E s \in Texts, n1 \in Needles, n2 \in Replacements, n3 \in Counts :
  last' = Call("replace", <<s, n1, n2, n3>>, str_replace(s, n1, n2, n3))
CallLinesOf == \E s \in Pieces, k \in BOOLEAN : last' = Call("lines", <<s, k>>, str_lines(s, k))
CallTrim == \E s \in Pieces :
  last' = Call("trim", <<s>>, [all |-> str_trim(s), start |-> str_trimStart(s), end |-> str_trimEnd(s)])
CallEscape == \E s \in Pieces : last' = Call("escape", <<s>>, str_escape(s))
CallScan == \E names \in Names : last' = Call("scandir", <<names>>, fs_scandirSync_order(names))
CallPathOf == \E s \in Paths :
  last' = Call("path", <<s>>, [dirname |-> path_dirname(s), basename |-> path_basename(s)])
CallToInt == \E s \in Numerals, n1 \in Radixes :
  last' = Call("toInt", <<s, n1>>, ToSigned(s, n1, Half, Long))
CallToUint == \E s \in Numerals, n1 \in Radixes, max \in {2 * Half - 1, 2 * Long - 1} :
  last' = Call("toUint", <<s, n1, max>>, ToUnsigned(s, n1, max, Long))
CallParseUrl == \E s \in URLs, special \in BOOLEAN :
  last' = Call("url", <<s, special>>, url_parse(s, special))

Next ==
  /\ last = None
  /\ \/ CallContains \/ CallFind \/ CallCompare \/ CallSlice \/ CallIndex \/ CallSplit \/ CallReplace \/ CallLinesOf
     \/ CallTrim \/ CallEscape \/ CallScan \/ CallPathOf \/ CallToInt \/ CallToUint \/ CallParseUrl
Spec == Init /\ [][Next]_vars

Did(fn) == last.fn = fn
Arg(i) == last.args[i]
Out == last.out

(***************************************************************************)
(* What the functions should return, and where they do not.  Each property *)
(* gives the answer that the documentation of a function (src/api/str, fs, *)
(* path, url) or, where it says nothing, the function's name asks for, and *)
(* the calls for which the code answers otherwise have a name of their     *)
(* own: MissedAtEnd, FoundBehind, OneAfterAnother, OneStartsOther,         *)
(* HoldsBackslash, WrapsRound and OutOfOrder.  For a call in one of these  *)
(* a property says what the code returns instead, never what is promised.  *)
(***************************************************************************)

\* Nothing a function returns is longer than the lengths of its arguments allow, a
\* position is -1 or lies in the string, and a number has the width of its type.
TypeOK ==
  /\ Did("find") => Out \in -1..(Len(Arg(1)) - 1)
  /\ Did("at") => Out \in -1..(Len(Arg(1)) - 1)
  /\ Did("slice") => Len(Out) <= Len(Arg(1))
  /\ Did("toInt") => Out.value \in -Half..(Half - 1)
  /\ Did("toUint") => Out.value \in 0..Arg(3)
  /\ Did("scandir") => DOMAIN Out = DOMAIN Arg(1)

Occurs(s, n, i) == i + Len(n) <= Len(s) /\ At(s, i, n)
Hits(s, n) == {i \in 0..Len(s) : Occurs(s, n, i)}

\* The loop of str_contains ends one position early (str.cpp:101).
MissedAtEnd(s, n) == Len(n) \in 1..(Len(s) - 1) /\ Hits(s, n) = {Len(s) - Len(n)}
\* contains says whether the text occurs in the string (src/api/str:26), except
\* that it says no of a text that occurs at the very end only.
ContainsAgrees ==
  Did("contains") =>
    LET s == Arg(1) n == Arg(2) IN Out = (Hits(s, n) # {} /\ ~MissedAtEnd(s, n))

\* The string ends with a start of the text and the memory behind the string holds
\* the rest of it: str.cpp:170 compares without a look at the length.
FoundBehind(s, n, behind) ==
  {i \in 0..(Len(s) - 1) : i + Len(n) > Len(s) /\ At(s \o behind, i, n)}
\* find returns the first position at which the text occurs and -1 where it does not
\* (src/api/str:33); a text that does not occur may be found behind the string, at
\* a position where it is not, and in an empty string not even the empty text is.
FindAgrees ==
  Did("find") =>
    LET s == Arg(1) n == Arg(2) phantom == FoundBehind(s, n, Arg(3))
    IN Out = IF s # <<>> /\ Hits(s, n) # {} THEN Min(Hits(s, n))
             ELSE IF phantom # {} THEN Min(phantom)
             ELSE -1

Differ(s, t) == \E i \in 1..Len(s) : i <= Len(t) /\ s[i] # t[i]
OneStartsOther(s, t) == s # t /\ ~Differ(s, t)
\* The comparisons order two strings by the first character in which they differ, and
\* equal strings are equal.  Of a string and a longer one it starts they may say
\* anything, for memcmp reads on behind the shorter one (str.cpp:184-216), but lt and
\* ge, and gt and le, still contradict each other.
OrderAgrees ==
  Did("compare") =>
    LET s == Arg(1) t == Arg(2)
        less == \E i \in 1..Len(s) : i <= Len(t) /\ s[i] < t[i] /\ \A j \in 1..(i - 1) : s[j] = t[j]
    IN IF OneStartsOther(s, t) THEN Out.ge = ~Out.lt /\ Out.le = ~Out.gt
       ELSE Out = [lt |-> less, gt |-> s # t /\ ~less, le |-> less \/ s = t, ge |-> ~less]

Wrap(i, n) == IF i < 0 THEN i + n ELSE i
\* A slice is the characters whose positions lie between the two bounds, a negative
\* bound counted from the end, and the index operator finds the character that the
\* slice of length one at that position holds.
SliceAgrees ==
  /\ Did("slice") =>
       LET s == Arg(1)
           from == IF Arg(2) = 0 THEN 0 ELSE Wrap(Arg(3), Len(s))
           to == IF Arg(4) = 0 THEN Len(s) ELSE Wrap(Arg(5), Len(s))
       IN Out = FlattenSeq([i \in DOMAIN s |-> IF i - 1 >= from /\ i - 1 < to THEN <<s[i]>> ELSE <<>>])
  /\ Did("at") =>
       LET s == Arg(1) one == str_slice(s, 1, Arg(2), IF Arg(2) = -1 THEN 0 ELSE 1, Arg(2) + 1)
       IN IF Arg(2) \in -Len(s)..(Len(s) - 1) THEN <<Ch(s, Out)>> = one ELSE Out = -1

Joined(pieces, n) ==
  FlattenSeq([i \in DOMAIN pieces |-> IF i = 1 THEN pieces[i] ELSE n \o pieces[i]])
\* the pieces between the occurrences of n, from the left, none overlapping
Divided(s, n) ==
  LET from[i \in 0..Len(s)] ==
        LET later == {j \in Hits(s, n) : j >= i}
        IN IF later = {} THEN << Cut(s, i, Len(s)) >>
           ELSE << Cut(s, i, Min(later)) >> \o from[Min(later) + Len(n)]
  IN from[0]
\* A delimiter that directly follows a delimiter: the loop looks for the next one a
\* position too late (str.cpp:395-397).
OneAfterAnother(s, n) ==
  n # <<>> /\ \E p \in 2..(Len(Divided(s, n)) - 1) : Divided(s, n)[p] = <<>>
\* split returns the pieces between the delimiters, the single characters for an empty
\* one (src/api/str:71).  Where delimiters follow one another it returns other
\* pieces: put together with the delimiter between them they are still the string, and
\* a later piece may hold a delimiter at its start or over its first characters.
SplitAgrees ==
  Did("split") =>
    LET s == Arg(1) n == Arg(2)
    IN IF OneAfterAnother(s, n)
       THEN /\ Out # Divided(s, n)
            /\ Joined(Out, n) = s
            /\ \A p \in DOMAIN Out : \A i \in Hits(Out[p], n) : p > 1 /\ i < Len(n)
       ELSE Out = IF n = <<>> THEN [i \in DOMAIN s |-> <<s[i]>>] ELSE Divided(s, n)

\* the text with the first times occurrences replaced, from the left, none overlapping
Exchange(s, n1, n2, times) ==
  LET from[i \in 0..Len(s), k \in 0..(Len(s) + 1)] ==
        IF i >= Len(s) THEN <<>>
        ELSE IF k > 0 /\ Occurs(s, n1, i) THEN n2 \o from[i + Len(n1), k - 1]
        ELSE <<Ch(s, i)>> \o from[i + 1, k]
  IN from[0, times]
Between(s, n2, times) ==
  FlattenSeq([i \in 1..(Len(s) + 1) |->
    (IF i <= times THEN n2 ELSE <<>>) \o (IF i <= Len(s) THEN <<s[i]>> ELSE <<>>)])
\* replace exchanges the first count occurrences from the left (all of them for a
\* count of zero or less), an empty text being found between all characters; the
\* length it returns is the length of the text, and it never writes outside the
\* block it asked for, whichever of the two texts is the longer one.
ReplaceAgrees ==
  Did("replace") =>
    LET s == Arg(1) n1 == Arg(2)
        times == IF Arg(4) <= 0 \/ Arg(4) > Len(s) + 1 THEN Len(s) + 1 ELSE Arg(4)
    IN /\ Out.text = IF Len(n1) > 0 THEN Exchange(s, n1, Arg(3), times)
                     ELSE Between(s, Arg(3), times)
       /\ Out.l = Len(Out.text)
       /\ Out.fits

\* Without their breaks the lines are the string without its breaks; with them they
\* are the string; a line has no break but the one at its end, and CR LF is one.
LinesAgree ==
  Did("lines") =>
    LET s == Arg(1) NoBreaks(t) == SelectSeq(t, LAMBDA c : ~IsBreak(c))
    IN /\ FlattenSeq(Out) = IF Arg(2) THEN s ELSE NoBreaks(s)
       /\ Len(Out) = Cardinality({i \in DOMAIN s :
            \/ s[i] = LF
            \/ s[i] = CR /\ ~(i < Len(s) /\ s[i + 1] = LF)
            \/ i = Len(s) /\ ~IsBreak(s[i])})

\* trim takes the blanks off both ends and nothing else, and each half of it one end.
TrimAgrees ==
  Did("trim") =>
    LET Blank(t) == \A i \in DOMAIN t : IsSpace(t[i])
        Bare(t) == t = <<>> \/ ~IsSpace(t[1])
        s == Arg(1)
    IN /\ \E i \in 0..Len(s) : Blank(Cut(s, 0, i)) /\ Cut(s, i, Len(s)) = Out.start /\ Bare(Out.start)
       /\ \E i \in 0..Len(s) : Blank(Cut(s, i, Len(s))) /\ Cut(s, 0, i) = Out.end /\ Bare(Reverse(Out.end))
       /\ Out.all = str_trimEnd(Out.start)

Unescaped(t) ==
  LET from[i \in 0..Len(t)] ==
        IF i >= Len(t) THEN <<>>
        ELSE IF Ch(t, i) = Backslash /\ i + 1 < Len(t)
             THEN << CASE Ch(t, i + 1) = 110 -> LF [] Ch(t, i + 1) = 114 -> CR [] OTHER -> Ch(t, i + 1) >>
                  \o from[i + 2]
             ELSE <<Ch(t, i)>> \o from[i + 1]
  IN from[0]
HoldsBackslash(s) == \E i \in DOMAIN s : s[i] = Backslash
\* What escape wrote can be read back, unless the string holds a backslash: escape
\* leaves that alone (str.cpp:150), and two strings look the same.
EscapeReversible ==
  Did("escape") => Unescaped(Out) = Arg(1) \/ HoldsBackslash(Arg(1))

\* fs_scandirSync returns the names it read, in the order of the first character in
\* which they differ; a name and a longer one it starts keep no order of their own.
ScanOrdered ==
  Did("scandir") =>
    /\ \A name \in Range(Arg(1)) \union Range(Out) :
         Cardinality({i \in DOMAIN Out : Out[i] = name}) =
         Cardinality({i \in DOMAIN Arg(1) : Arg(1)[i] = name})
    /\ \A i, j \in DOMAIN Out : i < j => ~Before(Out[j], Out[i])

AllSlashes(t) == \A i \in DOMAIN t : t[i] = Slash
\* A path is its directory, a separator and its base name, with nothing lost but the
\* separators at its end; a directory of "." or of "/" alone stands for none.
PathSplits ==
  Did("path") =>
    LET s == Arg(1) dir == Out.dirname base == Out.basename
        dot == <<46>>
        Ends(t) == Len(t) <= Len(s) /\ Cut(s, 0, Len(t)) = t /\ AllSlashes(Cut(s, Len(t), Len(s)))
    IN \/ base = <<>> /\ AllSlashes(s) /\ dir = IF s = <<>> THEN dot ELSE <<Slash>>
       \/ base # <<>> /\ Ends(dir \o <<Slash>> \o base)
       \/ base # <<>> /\ Ends(base) /\ dir = dot
       \/ base # <<>> /\ Ends(<<Slash>> \o base) /\ dir = <<Slash>>

Digits(t, radix) == t # <<>> /\ \A i \in DOMAIN t : t[i] - 48 \in 0..(radix - 1)
ValueOf(t, radix) == FoldLeft(LAMBDA v, c : v * radix + c - 48, 0, t)
Unsigned(t) == IF t # <<>> /\ t[1] \in {Plus, Minus} THEN Tail(t) ELSE t
Negative(t) == t # <<>> /\ t[1] = Minus
\* A minus behind a blank is missed by the conversions to unsigned: the number comes
\* out modulo the width of long, if the type is wide enough for that (str.cpp:826).
WrapsRound(s) == Negative(str_trimStart(CString(s))) /\ s[1] # Minus
\* A conversion returns the number the text denotes or refuses it (src/api/str:89-150),
\* whatever the widths of long and of the type: out of range exactly when the type
\* does not hold it.  What stands behind a zero byte is not read (str_cstr), a minus
\* in the first place is refused by the conversions to unsigned, and one behind a
\* blank makes them return another number (WrapsRound).
ConvertsExactly ==
  /\ Did("toInt") =>
       LET t == str_trimStart(CString(Arg(1)))
           value == IF Negative(t) THEN -ValueOf(Unsigned(t), Arg(2)) ELSE ValueOf(Unsigned(t), Arg(2))
       IN IF Arg(2) \notin 2..36 THEN Out.kind = "radix"
          ELSE IF ~Digits(Unsigned(t), Arg(2)) THEN Out.kind \in {"syntax", "range"}
          ELSE IF value \in -Half..(Half - 1) THEN Out = Returned(value)
          ELSE Out.kind = "range"
  /\ Did("toUint") =>
       LET t == str_trimStart(CString(Arg(1)))
           value == ValueOf(Unsigned(t), Arg(2))
           answer == IF WrapsRound(Arg(1)) THEN (2 * Long - value) % (2 * Long) ELSE value
       IN IF Arg(2) \notin 2..36 THEN Out.kind = "radix"
          ELSE IF ~Digits(Unsigned(t), Arg(2)) \/ (Negative(t) /\ ~WrapsRound(Arg(1)))
               THEN Out.kind \in {"syntax", "range"}
          ELSE IF value < 2 * Long /\ answer <= Arg(3) THEN Out = Returned(answer)
          ELSE Out.kind = "range"

Place(s, signs) == {i \in 0..(Len(s) - 1) : Sign(s, i) \in signs}
\* a delimiter of an earlier part stands in a later one: "#a?b", "?a/b"
OutOfOrder(s) == \E i \in Place(s, {"?", "#"}), j \in Place(s, {"/", ":", "?"}) : i < j
\* A URL that is parsed is cut without loss: its parts follow one another, the path up
\* to the first "?", the search up to the first "#".  And a URL whose "/", "?", "#" and
\* ":" are in their order is never given up: the program ends only for one that is
\* OutOfOrder, because the ends of the parts are looked up in a fixed order
\* (url.cpp:86-146).
UrlCut ==
  Did("url") =>
    LET s == Arg(1)
    IN /\ Out.kind = "url" =>
            LET p == Out.parts
                cuts == SelectSeq(<<p.hostname, p.port, p.pathname, p.search, p.hash>>,
                                  LAMBDA part : ~IsMissing(part))
            IN /\ \A i \in 1..(Len(cuts) - 1) :
                    /\ cuts[i].to <= cuts[i + 1].from
                    /\ \A k \in cuts[i].to..(cuts[i + 1].from - 1) : Sign(s, k) \in {":", "?", "/"}
               /\ cuts # <<>> => \A k \in Last(cuts).to..(Len(s) - 1) : Sign(s, k) \in {":", "?"}
               /\ \A k \in p.port.from..(p.port.to - 1) : Sign(s, k) \notin {":", "/", "?", "#"}
               /\ \A k \in p.hostname.from..(p.hostname.to - 1) : Sign(s, k) \notin {":", "/", "?", "#", "@"}
       /\ Out = Invalid("exit") => OutOfOrder(s)

\* The functions on texts answer as above: MissedAtEnd, FoundBehind, OneAfterAnother,
\* OneStartsOther, HoldsBackslash and WrapsRound are all the calls that go wrong.
TextsAgree ==
  /\ TypeOK
  /\ FindAgrees /\ ContainsAgrees /\ OrderAgrees /\ SliceAgrees /\ SplitAgrees
  /\ ReplaceAgrees /\ LinesAgree /\ TrimAgrees /\ EscapeReversible /\ ConvertsExactly

\* The functions on paths, directories and URLs cut and order them without loss, a
\* name and a longer one it starts, and a URL that is OutOfOrder, apart.
PathsAgree == PathSplits /\ ScanOrdered /\ UrlCut

\* Whichever function is called returns what its documentation or its name asks for,
\* whatever stands behind the strings in memory, except for the named calls, where it
\* returns exactly what their comments say: that contains, find, split, the comparisons,
\* escape, the conversions to unsigned and the parsing of a URL go wrong there, and
\* that they go wrong nowhere else.
CallsAgree == TextsAgree /\ PathsAgree
=============================================================================
