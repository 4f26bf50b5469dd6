---- MODULE TypeEntities ----
(* The types of a program and the C entities the compiler prints for them:   *)
(* the struct of a type and the functions generated for it. A type is its    *)
(* kind, its parts and the name TypeMap::create* gives it; an entity keeps,  *)
(* of its code, the names it mentions: Codegen::_apiEntity collects them     *)
(* while the code is printed. A mention printed only in a loop over owned    *)
(* elements is left in: the struct of the type has it too.                   *)
EXTENDS TypeNames, FiniteSets, TLC

CONSTANT Fields(_)       \* the field types of an object type, by its name

Owned == {"array", "fn", "map", "obj", "opt", "union"}

\* ------------------------------------------------------ mentions of a type
ScalarCode == [int |-> {"int32_t"}, bool |-> {"bool"}, char |-> {}, byte |-> {}, i64 |-> {"int64_t"},
               u64 |-> {"uint64_t"}, float |-> {}, void |-> {}, str |-> {"struct str"},
               any |-> {"struct any"}, buffer_Buffer |-> {"struct buffer"}, i32 |-> {"int32_t"}, u32 |-> {"uint32_t"},
               i8 |-> {"int8_t"}, i16 |-> {"int16_t"}, u8 |-> {"uint8_t"}, u16 |-> {"uint16_t"}, f32 |-> {}, f64 |-> {}]

\* What writing the type in C mentions; an optional or a reference is a pointer to its part
RECURSIVE Code(_)
Code(t) == CASE t.kind \in DOMAIN ScalarCode -> ScalarCode[t.kind]
             [] t.kind \in {"opt", "ref"} -> Code(t.parts[1])
             [] OTHER -> {t.name}
Codes(ts) == UNION {Code(ts[i]) : i \in DOMAIN ts}

\* The function a value is copied, freed, reassigned, compared or printed with
Copy(t) == CASE t.kind = "any" -> {"any_copy"}
             [] t.kind = "buffer_Buffer" -> {"buffer_copy"}
             [] t.kind = "str" -> {"str_copy"}
             [] t.kind \in Owned -> {t.name \o "_copy"} \cup Code(t)
             [] OTHER -> {}
Free(t) == CASE t.kind = "any" -> {"any_free", "struct any"}
             [] t.kind = "buffer_Buffer" -> {"buffer_free", "struct buffer"}
             [] t.kind = "str" -> {"str_free", "struct str"}
             [] t.kind \in Owned -> {t.name \o "_free"} \cup Code(t)
             [] OTHER -> {}
Eq(t, dir) == CASE t.kind = "buffer_Buffer" -> {"buffer_" \o dir} \cup Copy(t)
                [] t.kind = "str" -> {"str_" \o dir \o "_str"} \cup Copy(t)
                [] t.kind \in Owned \ {"fn"} -> {t.name \o "_" \o dir} \cup Copy(t)
                [] OTHER -> {}
Str(t, escape) == CASE t.kind = "any" -> {"any_str"} \cup Copy(t)
                    [] t.kind = "buffer_Buffer" -> {"buffer_str"} \cup Copy(t)
                    [] t.kind \in Owned -> {t.name \o "_str"} \cup Copy(t)
                    [] t.kind = "str" /\ escape -> {"str_escape"}
                    [] t.kind = "str" -> Copy(t)
                    [] OTHER -> {t.name \o "_str"} \cup Code(t)
Each(F(_), ts) == UNION {F(ts[i]) : i \in DOMAIN ts}

\* ------------------------------------------- mentions of generated functions
Fails == {"err_state_t", "TYPE_error_Error", "error_Error_alloc", "error_Error_free", "error_assign",
          "longjmp", "NULL", "struct str"}
FailsAt == Fails \cup {"PRId32", "snprintf", "sprintf", "alloc", "int32_t", "size_t"}
Stringify == {"str_alloc", "str_concat_cstr", "str_concat_str", "struct str"}
VarArgs == {"va_list", "va_start", "va_arg", "va_end"}

\* The types of the functions handed to filter, forEach and sort
Filter(e) == Func(<<e>>, Scalar("bool"))
ForEach(e) == Func(<<e, Scalar("int")>>, Scalar("void"))
Sort(e) == Func(<<e, e>>, Scalar("int"))

ArrayUses(a) ==
  LET e == a.parts[1]
      Self == {a.name, a.name \o "_free", "size_t"} \cup Code(e)
      New == {"alloc"} \cup Copy(e)
      Calls(f) == {f.name \o "P", "err_state_t", "xalloc"} \cup Copy(e) \cup Free(f)
  IN <<<<"", Code(e) \cup {"size_t"}>>,
       <<"_alloc", {a.name, "NULL", "alloc", "size_t"} \cup Code(e) \cup VarArgs>>,
       <<"_free", {a.name, "free", "size_t"} \cup Free(e)>>,
       <<"_at", {a.name} \cup Code(e) \cup FailsAt>>,
       <<"_clear", {a.name, a.name \o "_free", "NULL"}>>,
       <<"_concat", Self \cup New>>,
       <<"_contains", Self \cup {"bool", "true", "false"} \cup Eq(e, "eq") \cup Free(e)>>,
       <<"_copy", {a.name, "NULL", "size_t"} \cup Code(e) \cup New>>,
       <<"_empty", {a.name, a.name \o "_free", "bool"}>>,
       <<"_eq", Self \cup {"bool", "false"} \cup Eq(e, "eq")>>,
       <<"_filter", Self \cup New \cup Calls(Filter(e))>>,
       <<"_first", {a.name, "str_alloc"} \cup Code(e) \cup Fails>>,
       <<"_forEach", Self \cup Calls(ForEach(e))>>,
       <<"_join", Self \cup Str(e, FALSE) \cup {"str_alloc", "str_concat_str", "str_copy", "str_free", "struct str"}>>,
       <<"_last", {a.name, "str_alloc"} \cup Code(e) \cup Fails>>,
       <<"_len", Self>>,
       <<"_merge", Self \cup Copy(e) \cup {"re_alloc"}>>,
       <<"_ne", Self \cup {"bool", "true"} \cup Eq(e, "ne")>>,
       <<"_pop", {a.name} \cup Code(e)>>,
       <<"_push", {a.name, "free", "re_alloc", "size_t"} \cup Code(e)>>,
       <<"_realloc", {a.name, a.name \o "_free"}>>,
       <<"_remove", {a.name, "memmove"} \cup Code(e) \cup Free(e) \cup FailsAt>>,
       <<"_reverse", Self \cup New \cup {"NULL"}>>,
       <<"_slice", Self \cup New \cup {"NULL", "int32_t"}>>,
       <<"_sort", {a.name, "int32_t", "size_t"} \cup Code(e) \cup Calls(Sort(e))>>,
       <<"_str", Self \cup Str(e, TRUE) \cup Stringify>>>>

MapUses(m) ==
  LET k == m.parts[1]
      v == m.parts[2]
      Pair == "pair" \o MapTail(k, v)
      Self == {m.name, m.name \o "_free", "size_t"}
      Search == {m.name, m.name \o "_free", "size_t"} \cup Code(k) \cup Eq(k, "eq") \cup Free(k)
  IN <<<<"pair", Code(k) \cup Code(v)>>,
       <<"", {Pair, "size_t"}>>,
       <<"_alloc", {Pair, m.name, "alloc"} \cup Code(k) \cup Code(v) \cup VarArgs>>,
       <<"_free", {m.name, "free", "size_t"} \cup Free(k) \cup Free(v)>>,
       <<"_cap", Self>>,
       <<"_clear", {m.name, m.name \o "_free", "NULL"}>>,
       <<"_copy", {Pair, m.name, "alloc", "size_t"} \cup Copy(k) \cup Copy(v)>>,
       <<"_empty", Self \cup {"bool"}>>,
       <<"_eq", Self \cup {"bool", "false"} \cup Eq(k, "eq") \cup Eq(v, "eq")>>,
       <<"_get", Search \cup Code(v) \cup Copy(v) \cup Fails \cup {"str_alloc"}>>,
       <<"_has", Search \cup {"bool", "true", "false"}>>,
       <<"_keys", Self \cup Code(k) \cup Copy(k) \cup {"alloc", Arr(k).name}>>,
       <<"_len", Self>>,
       <<"_merge", Self \cup {Pair, "re_alloc"} \cup Eq(k, "eq") \cup Copy(k) \cup Copy(v) \cup Free(v)>>,
       <<"_ne", Self \cup {"bool", "true"} \cup Eq(k, "eq") \cup Eq(v, "ne")>>,
       <<"_realloc", {m.name, m.name \o "_free"}>>,
       <<"_remove", Search \cup {Pair, "memmove", "str_alloc"} \cup Free(v) \cup Fails>>,
       <<"_reserve", {Pair, m.name, "int32_t", "re_alloc"}>>,
       <<"_set", Search \cup {Pair, "re_alloc"} \cup Code(v) \cup Free(v)>>,
       <<"_shrink", {Pair, m.name, "NULL", "free", "re_alloc"}>>,
       <<"_str", Self \cup Str(k, TRUE) \cup Str(v, TRUE) \cup Stringify>>,
       <<"_values", Self \cup Code(v) \cup Copy(v) \cup {"alloc", Arr(v).name}>>>>

OptUses(o) ==
  LET t == o.parts[1] IN
     <<<<"_alloc", {"alloc"} \cup Code(t)>>,
       <<"_free", {"NULL", "free"} \cup Code(t) \cup Free(t)>>,
       <<"_copy", {"NULL", "alloc"} \cup Code(t) \cup Copy(t)>>,
       <<"_eq", {"bool", "NULL", o.name \o "_free"} \cup Code(t) \cup Eq(t, "eq")>>,
       <<"_ne", {"bool", "NULL", o.name \o "_free"} \cup Code(t) \cup Eq(t, "ne")>>,
       <<"_realloc", {o.name \o "_free"} \cup Code(t)>>,
       <<"_str", {"NULL", o.name \o "_free", "str_alloc", "struct str"} \cup Code(t) \cup Str(t, TRUE)
                 \cup (IF t.kind = "str" THEN Stringify ELSE {})>>>>

TypeTag(t) == "TYPE_" \o t.name

UnionUses(u) ==
  LET Tagged(F(_)) == {u.name} \cup UNION {{TypeTag(u.parts[i])} \cup F(u.parts[i]) : i \in DOMAIN u.parts}
      EqOf(t) == Eq(t, "eq")
      NeOf(t) == Eq(t, "ne")
      StrOf(t) == Str(t, FALSE)
  IN <<<<"", Codes(u.parts)>>,
       <<"_alloc", Tagged(Code) \cup VarArgs>>,
       <<"_free", Tagged(Free)>>,
       <<"_copy", Tagged(Copy)>>,
       <<"_eq", Tagged(EqOf) \cup {"bool", u.name \o "_free"}>>,
       <<"_ne", Tagged(NeOf) \cup {"bool", u.name \o "_free"}>>,
       <<"_realloc", {u.name, u.name \o "_free"}>>,
       <<"_str", Tagged(StrOf) \cup {"struct str", u.name \o "_free"}>>>>

\* The parameters struct is printed when the program may fail or the function has parameters
FnUses(f, throws) ==
  LET ps == Front(f.parts)
      Params == IF throws \/ ps # <<>>
                  THEN <<<<"P", Codes(ps) \cup (IF throws THEN {"err_state_t"} ELSE {})>>>> ELSE <<>>
  IN <<<<"", Code(Last(f.parts)) \cup {"size_t"}>>>> \o Params \o
     <<<<"_copy", {f.name, "NULL", "alloc", "memcpy"}>>,
       <<"_free", {f.name, "NULL", "free"}>>,
       <<"_realloc", {f.name, f.name \o "_free"}>>,
       <<"_str", {f.name, f.name \o "_free", "str_alloc", "struct str"}>>>>

AnyUses(b) ==
  LET t == b.parts[1] IN
     <<<<"", Code(t)>>,
       <<"_copy", {b.name, "alloc", "struct any"} \cup Copy(t)>>,
       <<"_free", {b.name, "free", "struct any"} \cup Free(t)>>,
       <<"_alloc", {b.name, b.name \o "_copy", b.name \o "_free", "alloc", "size_t", "struct any", TypeTag(t)}
                   \cup Code(t)>>>>

\* The free of a Request also closes its connection (Codegen.cpp:184)
ObjUses(o) ==
  LET fs == Fields(o.name)
      EqOf(t) == Eq(t, "eq")
      NeOf(t) == Eq(t, "ne")
      StrOf(t) == Str(t, TRUE)
      Extra == IF o.name = "request_Request" THEN {"request_close"} ELSE {}
      Compared == {o.name, o.name \o "_free", "bool"}
  IN <<<<"", Codes(fs)>>,
       <<"_alloc", {o.name, "alloc", "memcpy"} \cup Codes(fs) \cup (IF fs = <<>> THEN {"NULL"} ELSE {})>>,
       <<"_copy", {o.name, "alloc", "memcpy"} \cup Each(Copy, fs)>>,
       <<"_eq", Compared \cup Each(EqOf, fs) \cup (IF fs = <<>> THEN {"true"} ELSE {})>>,
       <<"_free", {o.name, "free"} \cup Each(Free, fs) \cup Extra>>,
       <<"_ne", Compared \cup Each(NeOf, fs) \cup (IF fs = <<>> THEN {"false"} ELSE {})>>,
       <<"_realloc", {o.name, o.name \o "_free"}>>,
       <<"_str", {o.name, o.name \o "_free"} \cup Each(StrOf, fs) \cup Stringify>>>>

\* --------------------------------------------------------- creating entities
\* The value of a type is a struct itself, not a pointer or a scalar
ByValue(t) == t.kind \in {"array", "map", "union", "fn"}
Inner(ts) == {ts[i].name : i \in {j \in DOMAIN ts : ByValue(ts[j])}}

\* What printing a type creates, in order: the types it names first, then its own entities. The
\* callbacks of an array and the arrays of a map's keys and values are created on the way.
Entity(t, use, inner) ==
  [name |-> IF use[1] = "pair" THEN "pair" \o MapTail(t.parts[1], t.parts[2]) ELSE t.name \o use[1],
   struct |-> use[1] \in {"", "P", "pair"}, inner |-> inner, uses |-> use[2]]
Tag(t) == [name |-> TypeTag(t), struct |-> FALSE, inner |-> {}, uses |-> {}]

\* A type that was printed before is found by the name of its struct, or of its first function
Exists(es, t) == \E i \in DOMAIN es : es[i].name \in {t.name, t.name \o "_alloc"}

RECURSIVE Created(_, _, _), CreatedAll(_, _, _)
CreatedAll(es, ts, throws) == IF ts = <<>> THEN es ELSE CreatedAll(Created(es, Head(ts), throws), Tail(ts), throws)
Created(es, t, throws) ==
  LET Add(es0, use, inner) == Append(es0, Entity(t, use, inner))
      AddAll(es0, uses) == es0 \o [i \in DOMAIN uses |-> Entity(t, uses[i], {})]
      TagOf(es0, p) == IF \E i \in DOMAIN es0 : es0[i].name = TypeTag(p) THEN es0 ELSE Append(es0, Tag(p))
      Tags(es0, ts) == FoldLeft(TagOf, es0, ts)
  IN CASE Exists(es, t) \/ t.kind \in DOMAIN ScalarCode -> es
       [] t.kind = "ref" -> Created(es, t.parts[1], throws)
       [] t.kind = "array" ->
            LET u == ArrayUses(t)
                e == t.parts[1]
                s1 == AddAll(Created(es, e, throws), SubSeq(u, 1, 10))
                s2 == AddAll(Created(s1, Filter(e), throws), SubSeq(u, 11, 12))
                s3 == AddAll(Created(s2, ForEach(e), throws), SubSeq(u, 13, 24))
            IN AddAll(Created(s3, Sort(e), throws), SubSeq(u, 25, 26))
       [] t.kind = "map" ->
            LET u == MapUses(t)
                s1 == Add(CreatedAll(es, t.parts, throws), u[1], Inner(t.parts))
                s2 == AddAll(s1, SubSeq(u, 2, 11))
                s3 == AddAll(Created(s2, Arr(t.parts[1]), throws), SubSeq(u, 12, 21))
            IN AddAll(Created(s3, Arr(t.parts[2]), throws), SubSeq(u, 22, 22))
       [] t.kind = "opt" -> AddAll(Created(es, t.parts[1], throws), OptUses(t))
       [] t.kind = "union" ->
            LET u == UnionUses(t)
                s1 == Tags(CreatedAll(es, t.parts, throws), t.parts)
            IN AddAll(Add(s1, u[1], Inner(t.parts)), Tail(u))
       [] t.kind = "fn" ->
            LET u == FnUses(t, throws)
                s1 == Add(Created(es, Last(t.parts), throws), u[1], {})
                ps == Front(t.parts)
            IN IF Len(u) = 5 THEN AddAll(s1, Tail(u))
               ELSE AddAll(Add(CreatedAll(s1, ps, throws), u[2], Inner(ps)), SubSeq(u, 3, 6))
       [] t.kind = "any_of" ->
            LET u == AnyUses(t)
                s1 == Add(Created(es, t.parts[1], throws), u[1], Inner(t.parts))
            IN TagOf(AddAll(s1, Tail(u)), t.parts[1])
       [] t.kind = "obj" -> es   \* an object's entities are created by its declaration

\* The declaration of an object: its struct after the types of its fields, then its functions, which
\* find every type they need already created
Declared_StructFirst(es, o, throws) ==
  LET fs == Fields(o.name)
      u == ObjUses(o)
      s1 == CreatedAll(Append(es, Entity(o, u[1], Inner(fs))), fs, throws)
  IN s1 \o [i \in 1..Len(u) - 1 |-> Entity(o, u[i + 1], {})]
Declared(es, o, throws) ==
  LET fs == Fields(o.name)
      u == ObjUses(o)
      s1 == Append(CreatedAll(es, fs, throws), Entity(o, u[1], Inner(fs)))
  IN s1 \o [i \in 1..Len(u) - 1 |-> Entity(o, u[i + 1], {})]

\* The constructor of Codegen::gen: the builtin objects are declared, the names the runtime functions
\* ask for are resolved (creating arrays and maps on the way), then the program's types are printed
Catalogue(throws) ==
  LET Declare(es, n) == Declared(es, Obj(n), throws)
      Make(es, t) == Created(es, t, throws)
      builtin == FoldLeft(Declare, <<>>, BuiltinObjects)
      runtime == FoldLeft(Make, Append(builtin, Tag(Obj("error_Error"))), <<ArrayStr, MapStr, Headers>>)
  IN FoldLeft(Make, FoldLeft(Declare, runtime, UserObjects), UserTypes)
====
