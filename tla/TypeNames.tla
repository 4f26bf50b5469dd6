---- MODULE TypeNames ----
(* A type is its kind, its parts and the name TypeMap::create* gives it; the *)
(* names of everything printed for the type are made from that one.          *)
EXTENDS Sequences, SequencesExt

CONSTANTS UserObjects,   \* the objects a program declares, in order
          UserTypes      \* the types a program uses

\* ------------------------------------------------------------------ types
Scalar(n) == [kind |-> n, parts |-> <<>>, name |-> n]
Obj(n) == [kind |-> "obj", parts |-> <<>>, name |-> n]
Arr(t) == [kind |-> "array", parts |-> <<t>>, name |-> "array_" \o t.name]
Opt(t) == [kind |-> "opt", parts |-> <<t>>, name |-> "opt_" \o t.name]
Ref(t) == [kind |-> "ref", parts |-> <<t>>, name |-> "ref_" \o t.name]
MapTail(k, v) == "_" \o k.name \o "MS" \o v.name \o "ME"
Map(k, v) == [kind |-> "map", parts |-> <<k, v>>, name |-> "map" \o MapTail(k, v)]
Concat(ts, mark) == FoldLeft(LAMBDA s, t : s \o mark \o t.name, "", ts)
Union(ts) == [kind |-> "union", parts |-> ts, name |-> "union" \o Concat(ts, "_") \o "UE"]
\* A function type: its parameters, then what it returns
Func(ps, r) == [kind |-> "fn", parts |-> Append(ps, r),
              name |-> "fn_s" \o Concat(ps, "FP3") \o "FR" \o r.name \o "FE"]
\* The struct behind an `any` that holds a t
AnyOf(t) == [kind |-> "any_of", parts |-> <<t>>, name |-> "any_" \o t.name]

\* The types the compiler itself declares or resolves
BuiltinObjects == <<"error_Error", "fs_Stats", "request_Header", "request_Request", "request_Response", "url_URL">>
ArrayStr == Arr(Scalar("str"))
MapStr == Map(Scalar("str"), Scalar("str"))
Headers == Arr(Obj("request_Header"))
====
