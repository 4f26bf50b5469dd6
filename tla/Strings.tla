------------------------------ MODULE Strings ------------------------------
(***************************************************************************)
(* The algorithms of the generated program's strings (src/codegen-api/     *)
(* str.cpp, path.cpp, the order of fs_scandirSync): a string is a sequence *)
(* of characters without a terminator, positions count from 0 as in C.     *)
(* memcmp reads as many characters as it is told, also past the end of a   *)
(* string: what lies behind the blocks of the strings is a parameter of    *)
(* the operators that look there.  Who owns the blocks is SystemLibrary's. *)
(***************************************************************************)
EXTENDS Integers, Sequences, SequencesExt, FiniteSetsExt

Cut(s, from, to) == SubSeq(s, from + 1, to)        \* s.d[from] .. s.d[to - 1]
Ch(s, i) == s[i + 1]                               \* s.d[i]

\* memcmp(&s.d[i], n.d, n.l) == 0 inside s
At(s, i, n) == Cut(s, i, i + Len(n)) = n
\* the same where the comparison may run into the memory behind s
AtOrBehind(s, i, n, behind) == At(s \o behind, i, n)

\* memcmp(a, b, count) < 0 of blocks of one length
Less(a, b) == \E i \in 1..Len(a) : a[i] < b[i] /\ \A j \in 1..(i - 1) : a[j] = b[j]
Fill(s, behind, count) == Cut(s \o behind, 0, count)

NUL == 0
LF == 10
CR == 13
SP == 32
Quote == 34
Slash == 47
Backslash == 92

(***************************************************************************)
(* Searching                                                               *)
(***************************************************************************)

\* the loop ends before the last position
str_contains(self, n1) ==
  \/ n1 = <<>>
  \/ self = n1
  \/ \E i \in 0..(Len(self) - Len(n1) - 1) : At(self, i, n1)

str_find(s1, s2, behind) ==
  LET hits == {i \in 0..(Len(s1) - 1) : AtOrBehind(s1, i, s2, behind)}
  IN IF hits = {} THEN -1 ELSE Min(hits)

(***************************************************************************)
(* Cutting                                                                 *)
(***************************************************************************)

\* n1 < 0 counts from the end; both ends are clipped
Clip(n, length) ==
  IF n < 0 THEN (IF n < -length THEN 0 ELSE n + length)
  ELSE IF n > length THEN length ELSE n
str_slice(s, o1, n1, o2, n2) ==
  LET i1 == IF o1 = 0 THEN 0 ELSE Clip(n1, Len(s))
      i2 == IF o2 = 0 THEN Len(s) ELSE Clip(n2, Len(s))
  IN IF i1 >= i2 \/ i1 >= Len(s) THEN <<>> ELSE Cut(s, i1, i2)

\* index out of string bounds, or the position in the block
str_at(s, i) ==
  IF (i >= 0 /\ i >= Len(s)) \/ (i < 0 /\ i < -Len(s)) THEN -1
  ELSE IF i < 0 THEN Len(s) + i ELSE i

\* j += n1.l in the body and j++ in the head: the position behind a delimiter is skipped
str_split(self, n1) ==
  LET from[i \in 0..Len(self), j \in 0..(Len(self) + 1)] ==
        IF j > Len(self) - Len(n1) THEN << Cut(self, i, Len(self)) >>
        ELSE IF At(self, j, n1)
             THEN << Cut(self, i, j) >> \o from[j + Len(n1), j + Len(n1) + 1]
             ELSE from[i, j + 1]
  IN IF n1 = <<>> THEN [i \in DOMAIN self |-> <<self[i]>>]
     ELSE IF Len(self) < Len(n1) THEN <<self>>
     ELSE from[0, 0]

IsBreak(c) == c \in {CR, LF}
str_lines(s, k) ==
  LET from[i \in 0..Len(s), j \in 0..Len(s)] ==      \* the line began at i
        IF j = Len(s) THEN (IF i = j THEN <<>> ELSE << Cut(s, i, j) >>)
        ELSE IF IsBreak(Ch(s, j))
             THEN LET both == Ch(s, j) = CR /\ j + 1 < Len(s) /\ Ch(s, j + 1) = LF
                      end == IF both THEN j + 2 ELSE j + 1
                  IN << Cut(s, i, IF k THEN end ELSE j) >> \o from[end, end]
             ELSE from[i, j + 1]
  IN from[0, 0]

IsSpace(c) == c \in {SP, CR, LF}
\* how many spaces the two loops step over
Leading(s) == Min({i \in 0..Len(s) : i = Len(s) \/ ~IsSpace(Ch(s, i))})
Trailing(s) == Max({j \in 0..Len(s) : j = 0 \/ ~IsSpace(Ch(s, j - 1))})
str_trim(s) == IF Leading(s) >= Trailing(s) THEN <<>> ELSE Cut(s, Leading(s), Trailing(s))
str_trimStart(s) == Cut(s, Leading(s), Len(s))
str_trimEnd(s) == Cut(s, 0, Trailing(s))

(***************************************************************************)
(* Replacing: the text, the length l the code computes for it and whether  *)
(* every write stayed inside the block that was allocated.                 *)
(***************************************************************************)

Written(text, l, fits) == [text |-> text, l |-> l, fits |-> fits]

\* nothing to search for: n2 in front of every character and at the end
Interspersed(self, n2, n3, times) ==
  LET put[i \in 0..Len(self)] ==
        IF i = 0 THEN n2
        ELSE put[i - 1] \o <<self[i]>> \o (IF n3 <= 0 \/ i < n3 THEN n2 ELSE <<>>)
  IN Written(put[Len(self)], Len(self) + times * Len(n2),
             Len(put[Len(self)]) <= Len(self) + times * Len(n2))

\* n1 is shorter than self: k hits so far, the block grows with l
Exchanged(self, n1, n2, n3, last) ==
  LET grown(k) == Len(self) + k * (Len(n2) - Len(n1))
      block(k) == IF Len(n2) > Len(n1) THEN grown(k) ELSE Len(self)
      from[i \in 0..Len(self), k \in 0..Len(self)] ==
        IF i >= Len(self) THEN Written(<<>>, grown(k), TRUE)
        ELSE LET hit == i <= last /\ At(self, i, n1) /\ (n3 <= 0 \/ k < n3)
                 j == i + k * (Len(n2) - Len(n1))
                 put == IF hit THEN n2 ELSE <<Ch(self, i)>>
                 rest == IF hit THEN from[i + Len(n1), k + 1] ELSE from[i + 1, k]
             IN Written(put \o rest.text, rest.l,
                        rest.fits /\ j + Len(put) <= block(IF hit THEN k + 1 ELSE k))
  IN from[0, 0]

str_replace_OneShort(self, n1, n2, n3) ==
  IF n1 = <<>> /\ n2 # <<>>
  THEN Interspersed(self, n2, n3, IF n3 > 0 /\ n3 <= Len(self) THEN n3 ELSE Len(self))
  ELSE Written(self, Len(self), TRUE)
str_replace(self, n1, n2, n3) ==
  IF n1 = <<>> /\ n2 # <<>>
  THEN Interspersed(self, n2, n3, IF n3 > 0 /\ n3 <= Len(self) THEN n3 ELSE Len(self) + 1)
  ELSE IF n1 # <<>> /\ Len(self) = Len(n1)
       THEN LET text == IF self = n1 THEN n2 ELSE self IN Written(text, Len(text), TRUE)
  ELSE IF n1 # <<>> /\ Len(self) > Len(n1)
       THEN Exchanged(self, n1, n2, n3, Len(self) - Len(n1))
  ELSE Written(self, Len(self), TRUE)

(***************************************************************************)
(* Comparing: memcmp over the longer of the two lengths                    *)
(***************************************************************************)

Longer(s1, s2) == IF Len(s1) > Len(s2) THEN Len(s1) ELSE Len(s2)
str_lt(s1, s2, behind) ==
  LET count == Longer(s1, s2) IN Less(Fill(s1, behind, count), Fill(s2, behind, count))
str_gt(s1, s2, behind) == str_lt(s2, s1, behind)
str_le(s1, s2, behind) == ~str_gt(s1, s2, behind)
str_ge(s1, s2, behind) == ~str_lt(s1, s2, behind)

\* exchange sort of fs_scandirSync; a name and a longer one it starts are not told apart
Swapped(r, j, k) == [r EXCEPT ![j] = r[k], ![k] = r[j]]
Before(a, b) ==
  LET count == IF Len(a) > Len(b) THEN Len(b) ELSE Len(a)
  IN Less(Cut(a, 0, count), Cut(b, 0, count))
Pass(r, j, last) ==
  FoldLeft(LAMBDA q, k : IF Before(q[k], q[j]) THEN Swapped(q, j, k) ELSE q,
           r, [i \in 1..(last - j) |-> j + i])
fs_scandirSync_order(names) ==
  FoldLeft(LAMBDA r, j : Pass(r, j, Len(names)), names, [j \in DOMAIN names |-> j])

(***************************************************************************)
(* Escaping, and the conversions to numbers                                *)
(***************************************************************************)

Escapes == {LF, CR, Quote}
EscapeLetter(c) == CASE c = LF -> 110 [] c = CR -> 114 [] OTHER -> c
str_escape(s) ==
  FlattenSeq([i \in DOMAIN s |->
    IF s[i] \in Escapes THEN <<Backslash, EscapeLetter(s[i])>> ELSE <<s[i]>>])

\* strtol and strtoul: blanks, a sign, digits; end is where they stopped, 0 without a digit
Minus == 45
Plus == 43
ToNumber(c, radix) ==
  LET sign == Leading(c)
      signed == sign < Len(c) /\ Ch(c, sign) \in {Minus, Plus}
      first == IF signed THEN sign + 1 ELSE sign
      digit(i) == i < Len(c) /\ Ch(c, i) - 48 \in 0..(radix - 1)
      end == Min({i \in first..Len(c) : ~digit(i)})
      value == FoldLeft(LAMBDA v, d : v * radix + d - 48, 0, Cut(c, first, end))
  IN [end |-> IF end = first THEN 0 ELSE end, value |-> value,
      minus |-> signed /\ Ch(c, sign) = Minus]

Returned(v) == [kind |-> "value", value |-> v]
Refused(kind) == [kind |-> kind, value |-> 0]
\* str_cstr: C sees the text up to its first zero byte
CString(s) == Cut(s, 0, Min({i \in 0..Len(s) : i = Len(s) \/ Ch(s, i) = NUL}))
RadixIsValid(n1) == n1 = 0 \/ n1 \in 2..36

\* str_toInt, str_toI8 .. str_toI64: long has the values -long..(long - 1), the type -half..(half - 1)
ToSigned(self, n1, half, long) ==
  LET c == CString(self)
      number == ToNumber(c, n1)
      r == IF number.minus THEN -number.value ELSE number.value
  IN IF ~RadixIsValid(n1) THEN Refused("radix")
     ELSE IF r < -long \/ r > long - 1 \/ r < -half \/ r > half - 1 THEN Refused("range")
     ELSE IF number.end = 0 \/ number.end < Len(c) THEN Refused("syntax")
     ELSE Returned(r)

\* str_toU8 .. str_toU64: strtoul negates what follows a minus modulo its width, and only
\* a minus in the first place of the string is looked for
ToUnsigned(self, n1, max, long) ==
  LET c == CString(self)
      number == ToNumber(c, n1)
      r == IF number.minus THEN (2 * long - number.value) % (2 * long) ELSE number.value
  IN IF ~RadixIsValid(n1) THEN Refused("radix")
     ELSE IF number.value >= 2 * long \/ r > max THEN Refused("range")
     ELSE IF number.end = 0 \/ number.end < Len(c) \/ Ch(self, 0) = Minus THEN Refused("syntax")
     ELSE Returned(r)

(***************************************************************************)
(* Paths                                                                   *)
(***************************************************************************)

\* k: the last position that is no separator; the separator before it ends the directory
Trimmed(s) == Cut(s, 0, Max({i \in 0..Len(s) : i = 0 \/ Ch(s, i - 1) # Slash}))
Separator(s) == LET seps == {i \in 0..(Len(s) - 1) : Ch(s, i) = Slash}
                IN IF seps = {} THEN -1 ELSE Max(seps)
path_basename(s) == Cut(Trimmed(s), Separator(Trimmed(s)) + 1, Len(Trimmed(s)))
path_dirname(s) ==
  IF s = <<>> THEN <<46>>
  ELSE IF Separator(Trimmed(s)) > 0 THEN Cut(s, 0, Separator(Trimmed(s)))
  ELSE IF Ch(s, 0) = Slash THEN <<Slash>> ELSE <<46>>
=============================================================================
