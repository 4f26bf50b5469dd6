------------------------------- MODULE Urls --------------------------------
(***************************************************************************)
(* url_parse (src/codegen-api/url.cpp): where the parts of a URL begin and *)
(* end.  Positions count from 0, and 0 also says that a part is missing; a *)
(* length is a size_t, so a part that would end before it begins asks the  *)
(* allocator for nearly all of the memory, and alloc ends the program.     *)
(* A letter stands for everything that is no delimiter; special is whether *)
(* the protocol is ftp:, http:, https:, ws: or wss:.                       *)
(***************************************************************************)
EXTENDS Integers, Sequences, FiniteSetsExt, SequencesExt

Sign(s, i) == s[i + 1]
Invalid(what) == [kind |-> "error", what |-> what]
Part(from, to) == [from |-> from, to |-> to]
NoPart == Part(0, 0)
IsMissing(part) == part = NoPart
IsWrapped(part) == part.to < part.from

\* the first loop: the position behind the colon, or the error
ProtocolEnd(s) ==
  LET stop == Min({i \in 0..(Len(s) - 1) : i = Len(s) - 1 \/ Sign(s, i) # "x"})
  IN IF Sign(s, stop) = ":" /\ stop # 0 THEN [ok |-> TRUE, at |-> stop + 1]
     ELSE [ok |-> FALSE, at |-> IF Sign(s, stop) # "x" THEN 1 ELSE 2]

\* the second loop: one character
Noticed(s, host, m, i) ==
  CASE Sign(s, i) = "@" /\ host # 0 /\ m.pathname = 0 -> [m EXCEPT !.error = "auth"]
    [] Sign(s, i) = ":" /\ m.port # 0 /\ (m.pathname = 0 \/ m.search = 0 \/ m.hash = 0) ->
         [m EXCEPT !.error = "port"]
    [] Sign(s, i) = ":" /\ m.port = 0 /\ host # 0 /\ m.pathname = 0 -> [m EXCEPT !.port = i]
    [] Sign(s, i) = "/" /\ m.pathname = 0 -> [m EXCEPT !.pathname = i]
    [] Sign(s, i) = "?" /\ m.search = 0 -> [m EXCEPT !.search = i]
    [] Sign(s, i) = "#" /\ m.hash = 0 -> [m EXCEPT !.hash = i]
    [] OTHER -> m
Marks(s, first, host, pathname) ==
  FoldLeft(LAMBDA m, k : IF m.error # "none" THEN m ELSE Noticed(s, host, m, first + k - 1),
           [port |-> 0, pathname |-> pathname, search |-> 0, hash |-> 0, error |-> "none"],
           [k \in 1..(Len(s) - first) |-> k])

\* the first mark of the list that was found, or the end of the text
FirstOf(s, marks) ==
  LET found == SelectSeq(marks, LAMBDA at : at # 0) IN IF found = <<>> THEN Len(s) ELSE found[1]

Parts_PortOpen(s, protocol, host, m) ==
  [protocol |-> Part(0, protocol),
   hostname |-> IF host # 0 THEN Part(host, FirstOf(s, <<m.port, m.pathname, m.search, m.hash>>)) ELSE NoPart,
   port |-> IF m.port # 0 THEN Part(m.port, FirstOf(s, <<m.pathname, m.search, m.hash>>)) ELSE NoPart,
   pathname |-> IF m.pathname # 0 THEN Part(m.pathname, FirstOf(s, <<m.search, m.hash>>)) ELSE NoPart,
   search |-> IF m.search # 0 THEN Part(m.search, FirstOf(s, <<m.hash>>)) ELSE NoPart,
   hash |-> IF m.hash # 0 THEN Part(m.hash, Len(s)) ELSE NoPart]
Parts(s, protocol, host, m) ==
  LET hostEnd == FirstOf(s, <<m.port, m.pathname, m.search, m.hash>>)
      portEnd == FirstOf(s, <<m.pathname, m.search, m.hash>>)
      pathEnd == FirstOf(s, <<m.search, m.hash>>)
      Between(from, to) == IF from = to THEN NoPart ELSE Part(from, to)
  IN [protocol |-> Part(0, protocol),
      hostname |-> IF host # 0 THEN Part(host, hostEnd) ELSE NoPart,
      port |-> IF m.port # 0 THEN Between(m.port + 1, portEnd) ELSE NoPart,
      pathname |-> IF m.pathname # 0 THEN Between(m.pathname, pathEnd) ELSE NoPart,
      search |-> IF m.search # 0 THEN Between(m.search, FirstOf(s, <<m.hash>>)) ELSE NoPart,
      hash |-> IF m.hash # 0 THEN Part(m.hash, Len(s)) ELSE NoPart]

Parsed(parts, special) ==
  IF \E p \in DOMAIN parts : IsWrapped(parts[p]) THEN Invalid("exit")
  ELSE [kind |-> "url", parts |-> parts,
        pathIsRoot |-> special /\ IsMissing(parts.pathname)]

url_parse(s, special) ==
  LET protocol == ProtocolEnd(s)
      slashes == Min({i \in protocol.at..Len(s) : i = Len(s) \/ Sign(s, i) # "/"})
      both == slashes - protocol.at >= 2
      first == IF both THEN slashes ELSE protocol.at
      host == IF both THEN first ELSE 0
      m == Marks(s, first, host, IF both THEN 0 ELSE first)
      parts == Parts(s, protocol.at, host, m)
  IN IF s = <<>> THEN Invalid("URL")
     ELSE IF ~protocol.ok THEN Invalid(IF protocol.at = 1 THEN "protocol" ELSE "URL")
     ELSE IF slashes = Len(s)
          THEN [kind |-> "url", pathIsRoot |-> FALSE,
                parts |-> [p \in DOMAIN parts |-> IF p = "protocol" THEN Part(0, protocol.at) ELSE NoPart]]
     ELSE IF m.error # "none" THEN Invalid(m.error)
     ELSE IF host # 0 /\ parts.hostname.from = parts.hostname.to THEN Invalid("hostname")
     ELSE IF special /\ host = 0 THEN Invalid("origin")
     ELSE Parsed(parts, special)
=============================================================================
